---- MODULE Spec2Model ----
(***************************************************************************)
(* Model of the Anthropic provider adapter (Example_Functions/             *)
(* anthropic_v2.py): the pipe entry point with its content normalizer,    *)
(* payload builder and header negotiation, the rate-limit retry loop of    *)
(* _send_request and the event-stream decoder _stream_with_ui; and of the  *)
(* inlet of the two request filters, context_optimized.py (web search)     *)
(* and prompt_enhancer_filter_with_knowledge.py (prompt enhancer).         *)
(*                                                                         *)
(* Text values (messages, fragments) are sequences of string tokens, so    *)
(* that an f-string is a concatenation and "contains" is a sub-sequence.   *)
(***************************************************************************)
EXTENDS Integers, Sequences, FiniteSets, TLC

VARIABLES
    normalized,   \* outcomes of the calls of process_content made so far
    api_key,      \* self.valves.ANTHROPIC_API_KEY
    body,         \* the request body handed to pipe (without its "stream" key) or inlet
    request_payload,  \* pipe's payload: the outbound request body; inlet's search request
    request_headers,  \* pipe's headers: the outbound request headers
    stream,       \* body["stream"]: TRUE, FALSE or None (absent / null)
    emitter,      \* whether __event_emitter__ was supplied (and enabled by the valves)
    provider,     \* what the provider answers to the 1st, 2nd, ... request; for a
                  \* filter, its valves and what the services it calls answer
    pc,           \* position of the invocation
    retry_count,  \* _send_request: retry_count
    calls,        \* number of outbound requests issued so far
    waits,        \* durations passed to time.sleep, in order
    response,     \* the response object held by the caller / the decoder
    exc,          \* exception in flight (None when there is none)
    result,       \* value returned by pipe or inlet
    fragments,    \* fragments yielded by the stream generator, in order
    pos,          \* index of the next line of response.content to read
    request_id,   \* self.request_id
    events,       \* status events handed to __event_emitter__, in order
    visited       \* streaming states entered so far, in order

vars == <<normalized, api_key, body, request_payload, request_headers, stream, emitter, provider, pc, retry_count, calls, waits, response,
          exc, result, fragments, pos, request_id, events, visited>>

-----------------------------------------------------------------------------
(* Bounds of the model *)

ScriptLen == 4     \* number of provider answers scripted for _send_request
MaxLines == 3      \* maximal number of lines of a streamed body
MaxItems == 2      \* maximal number of items of a list content
MaxMessages == 3   \* maximal number of messages of a conversation

-----------------------------------------------------------------------------
(* Values *)

None == "None"

max_retries == 3
base_delay == 1

NoStatus == 0       \* status_code of a freshly constructed requests.Response()

FormatStatus(s) ==
    CASE s = 200 -> "200"
      [] s = 400 -> "400"
      [] s = 401 -> "401"
      [] s = 429 -> "429"
      [] s = 500 -> "500"
      [] OTHER   -> "None"

Headers(retryAfter, requestId) ==
    [retry_after |-> retryAfter, x_request_id |-> requestId]

HttpAnswer(status, headers, text, lines, ending) ==
    [kind |-> "http", status_code |-> status, headers |-> headers,
     text |-> text, lines |-> lines, ending |-> ending, error |-> <<>>]

FailedAnswer(message) ==
    [kind |-> "failure", status_code |-> NoStatus,
     headers |-> Headers(None, None), text |-> <<>>, lines |-> <<>>,
     ending |-> "eof", error |-> message]

\* requests.Response(): no status, no headers, empty text
EmptyResponse == HttpAnswer(NoStatus, Headers(None, None), <<>>, <<>>, "eof")

-----------------------------------------------------------------------------
(* The provider as the transport sees it *)

RetryAfterValues == {None, "3", "soon"}

\* int(<str>): defined on decimal literals, ValueError otherwise
IsIntLiteral(v) == v \in {"1", "3"}

IntOf(v) == IF v = "1" THEN 1 ELSE 3

\* what requests.post can produce for one attempt of _send_request
SendAnswers ==
    { HttpAnswer(200, Headers(None, None), <<"hello">>, <<>>, "eof"),
      HttpAnswer(400, Headers(None, None), <<"bad request">>, <<>>, "eof"),
      HttpAnswer(500, Headers(None, None), <<"overloaded">>, <<>>, "eof"),
      FailedAnswer(<<"connection timed out">>) }
    \cup { HttpAnswer(429, Headers(ra, None), <<"rate_limit_error">>, <<>>, "eof") :
             ra \in RetryAfterValues }

\* Lines of an event-stream body.  data = whether the line starts with
\* b"data: "; payload = the bytes that follow the prefix: form says whether
\* they are JSON text, truncated JSON text or bytes that are no UTF-8 text,
\* object is the value JSON text denotes.
Payload(form, object) == [form |-> form, object |-> object]

Line(isData, payload) == [data |-> isData, payload |-> payload]

TextDelta(t) == [type |-> "content_block_delta", delta |-> [text |-> t]]
JsonDelta == [type |-> "content_block_delta", delta |-> [partial_json |-> "{"]]
MessageStop == [type |-> "message_stop"]
Ping == [type |-> "ping"]
NoTypeEvent == [delta |-> [text |-> "A"]]
NoDeltaEvent == [type |-> "content_block_delta"]

Objects == {TextDelta("A"), TextDelta("B"), JsonDelta, MessageStop, Ping,
            NoTypeEvent, NoDeltaEvent}

EventLine == Line(FALSE, Payload("other", <<>>))     \* e.g. b"event: ping"
MalformedLine == Line(TRUE, Payload("truncated", <<>>))
UndecodableLine == Line(TRUE, Payload("not_utf8", <<>>))

StreamLines ==
    { EventLine, MalformedLine, UndecodableLine }
    \cup { Line(TRUE, Payload("json", o)) : o \in Objects }

RECURSIVE SeqsUpTo(_, _)
SeqsUpTo(S, n) ==
    IF n = 0 THEN { <<>> }
    ELSE LET shorter == SeqsUpTo(S, n - 1)
         IN  shorter \cup { Append(q, x) : q \in { t \in shorter : Len(t) = n - 1 }, x \in S }

RequestIds == {None, "req_1"}

ErrorBody == <<"{\"error\":{\"message\":\"", "invalid_api_key", "\"}}">>

\* what aiohttp's session.post can produce for _stream_with_ui: a 200
\* response with an event-stream body that ends by a clean end of stream or
\* by a connection reset, an error response, or no response at all
StreamAnswers ==
    { HttpAnswer(200, Headers(None, rid), <<>>, ls, e) :
        rid \in RequestIds, ls \in SeqsUpTo(StreamLines, MaxLines),
        e \in {"eof", "reset"} }
    \cup { HttpAnswer(s, Headers(None, rid), ErrorBody, <<EventLine>>, "eof") :
             s \in {401, 429}, rid \in RequestIds }
    \cup { FailedAnswer(<<"Cannot connect to host">>) }

-----------------------------------------------------------------------------
(* Helpers of the handlers *)

Exception(type, message) == [type |-> type, message |-> message]

NoException == Exception(None, <<>>)

StatusEvent(description, done) ==
    [type |-> "status", description |-> description, done |-> done]

\* `if __event_emitter__: await __event_emitter__(event)`
Emit(event) == IF emitter THEN Append(events, event) ELSE events

\* `if self.request_id: error_msg += f" (Request ID: {self.request_id})"`
WithRequestId(msg, rid) ==
    IF rid # None THEN msg \o <<" (Request ID: ", rid, ")">> ELSE msg

TextResult(text) == [kind |-> "text", content |-> text]
ErrorResult(msg) == [kind |-> "error", content |-> msg]
GeneratorResult == [kind |-> "generator", content |-> <<>>]
NoResult == [kind |-> None, content |-> <<>>]

-----------------------------------------------------------------------------
(* The request body: models, messages and content items *)

SUPPORTED_IMAGE_TYPES == <<"image/jpeg", "image/png", "image/gif", "image/webp">>

SUPPORTED_PDF_MODELS == <<"claude-3-5-sonnet-20241022", "claude-3-5-sonnet-20240620">>

MAX_IMAGE_SIZE == 5 * 1024 * 1024

PDF_BETA_HEADER == "pdfs-2024-09-25"

BETA_HEADER == "prompt-caching-2024-07-31"

DefaultMaxTokens == 4096

Range(q) == { q[i] : i \in 1..Len(q) }

\* MODEL_MAX_TOKENS
MODEL_MAX_TOKENS ==
    [ name \in { "claude-3-opus-20240229", "claude-3-sonnet-20240229",
                 "claude-3-haiku-20240307", "claude-3-5-sonnet-20240620",
                 "claude-3-5-sonnet-20241022", "claude-3-5-haiku-20241022",
                 "claude-3-opus-latest", "claude-3-5-sonnet-latest",
                 "claude-3-5-haiku-latest" } |->
        IF name \in { "claude-3-opus-20240229", "claude-3-sonnet-20240229",
                      "claude-3-haiku-20240307", "claude-3-opus-latest" }
        THEN 4096 ELSE 8192 ]

\* A model identifier is the sequence of its "/"-separated parts;
\* <identifier>.split("/")[-1] is the last part.
LastPart(identifier) == identifier[Len(identifier)]

Ephemeral == "ephemeral"      \* the annotation {"type": "ephemeral"}

Missing == "<missing>"        \* a key the dict does not have

\* A URL: a data: URL with its media type and the length of its base64
\* data, or a remote URL.
DataUrl(media_type, length) ==
    [kind |-> "data", media_type |-> media_type, length |-> length]

RemoteUrl == [kind |-> "remote", media_type |-> None, length |-> 0]

NoUrl == [kind |-> None, media_type |-> None, length |-> 0]

\* An item of a list content.  model = the item's own "model" key (Missing
\* when it has none), cache_control = its "cache_control" key (None when it
\* has none).
Item(type, text, url, model, cache_control) ==
    [type |-> type, text |-> text, url |-> url, model |-> model,
     cache_control |-> cache_control]

TextItem(text, cache_control) == Item("text", text, NoUrl, <<>>, cache_control)

ImageItem(url, cache_control) == Item("image_url", None, url, <<>>, cache_control)

PdfItem(url, model, cache_control) == Item("pdf_url", None, url, model, cache_control)

OtherItem(type) == Item(type, None, NoUrl, <<>>, None)

\* base64 lengths: small, the two around the ceiling (3/4 of 6990506 is
\* below 5 MiB, 3/4 of 6990507 is above) and one well above
ImageLengths == {4, 6990506, 6990507, 8000000}

Items ==
    { TextItem("hi", None), TextItem("hi", Ephemeral) }
    \cup { ImageItem(DataUrl("image/png", n), None) : n \in ImageLengths }
    \cup { ImageItem(DataUrl("image/bmp", 4), None),
           ImageItem(DataUrl("application/octet-stream", 4), None),
           ImageItem(RemoteUrl, None),
           ImageItem(DataUrl("image/png", 4), Ephemeral) }
    \cup { PdfItem(DataUrl("application/pdf", 4), <<>>, None),
           PdfItem(DataUrl("application/pdf", 4), <<"claude-3-5-sonnet-20241022">>, Ephemeral),
           PdfItem(RemoteUrl, <<"anthropic", "claude-3-opus-20240229">>, None),
           PdfItem(RemoteUrl, <<"anthropic", "claude-3-5-sonnet-20241022">>, None) }
    \cup { OtherItem("tool_calls"), OtherItem("tool_results"), OtherItem("audio"),
           OtherItem(Missing) }

\* message["content"]: a str or a list of items
StrContent(text) == [kind |-> "str", text |-> text, items |-> <<>>]

ListContent(items) == [kind |-> "list", text |-> None, items |-> items]

Message(role, content) == [role |-> role, content |-> content]

Contents == { StrContent("hello") } \cup { ListContent(q) : q \in SeqsUpTo(Items, MaxItems) }

SystemMessage == Message("system", StrContent("be brief"))

\* the conversations of the model: one user or assistant message, or a
\* system message followed by a user message of at most one item
Conversations ==
    { << Message(role, c) >> : role \in {"user", "assistant"}, c \in Contents }
    \cup { << SystemMessage, Message("user", c) >> :
             c \in { StrContent("hello") }
                   \cup { ListContent(q) : q \in SeqsUpTo(Items, 1) } }

Models ==
    { <<"anthropic", "claude-3-5-sonnet-20241022">>,
      <<"anthropic", "claude-3-opus-20240229">>,
      <<"anthropic", "claude-9-experimental">> }

\* body.get("max_tokens"): <<>> when the key is absent, <<n>> otherwise
MaxTokensRequests == { <<>>, <<1>>, <<4096>>, <<4097>>, <<8192>>, <<8193>>, <<100000>> }

\* "tools" / "tool_choice" / "response_format" of the body
Tools(present, tool_choice) == [present |-> present, tool_choice |-> tool_choice]

ToolsRequests == { Tools(FALSE, None), Tools(TRUE, None), Tools(TRUE, "auto") }

ResponseFormat(present, type) == [present |-> present, type |-> type]

ResponseFormatRequests ==
    { ResponseFormat(FALSE, None), ResponseFormat(TRUE, None),
      ResponseFormat(TRUE, "json_object") }

Body(model, messages, max_tokens, temperature, top_k, top_p, tools, response_format) ==
    [model |-> model, messages |-> messages, max_tokens |-> max_tokens,
     temperature |-> temperature, top_k |-> top_k, top_p |-> top_p,
     tools |-> tools, response_format |-> response_format]

PlainConversation == << Message("user", StrContent("hello")) >>

PlainBody ==
    Body(<<"anthropic", "claude-3-5-sonnet-20241022">>, PlainConversation, <<>>,
         None, None, None, Tools(FALSE, None), ResponseFormat(FALSE, None))

-----------------------------------------------------------------------------
(* Content Normalizer: process_content, process_image, process_pdf *)

\* an item of the outbound content
Source(type, media_type, length, url) ==
    [type |-> type, media_type |-> media_type, length |-> length, url |-> url]

NoSource == Source(None, None, 0, NoUrl)

OutItem(type, text, source, cache_control) ==
    [type |-> type, text |-> text, source |-> source, cache_control |-> cache_control]

RECURSIVE Join(_, _)
\* sep.join(parts)
Join(parts, sep) ==
    IF Len(parts) = 0 THEN <<>>
    ELSE IF Len(parts) = 1 THEN <<parts[1]>>
    ELSE <<parts[1], sep>> \o Join(Tail(parts), sep)

RECURSIVE FirstRaised(_)
\* the first exception of a sequence of outcomes, NoException when none raises
FirstRaised(outcomes) ==
    IF outcomes = <<>> THEN NoException
    ELSE IF Head(outcomes) # NoException THEN Head(outcomes)
    ELSE FirstRaised(Tail(outcomes))

\* url.startswith("data:image")
StartsWithDataImage(url) ==
    /\ url.kind = "data"
    /\ url.media_type \in {"image/jpeg", "image/png", "image/gif", "image/webp", "image/bmp"}

\* url.startswith("data:application/pdf")
StartsWithDataPdf(url) == url.kind = "data" /\ url.media_type = "application/pdf"

\* faulty variant: every media type is taken as supported
IsSupportedImageType_Any(media_type) == TRUE

\* `media_type not in self.SUPPORTED_IMAGE_TYPES`, negated
IsSupportedImageType(media_type) == media_type \in Range(SUPPORTED_IMAGE_TYPES)

UnsupportedMediaType(media_type) ==
    Exception("ValueError", <<"Unsupported media type: ", media_type>>)

\* process_image: the exception it raises
ProcessImageRaises(item) ==
    IF StartsWithDataImage(item.url) /\ ~IsSupportedImageType(item.url.media_type)
    THEN UnsupportedMediaType(item.url.media_type)
    ELSE NoException

\* process_image: the value it returns
process_image(item) ==
    IF StartsWithDataImage(item.url)
    THEN OutItem("image", None,
                 Source("base64", item.url.media_type, item.url.length, NoUrl), None)
    ELSE OutItem("image", None, Source("url", None, 0, item.url), None)

\* process_pdf: cache_control is copied when the item has one
process_pdf(item) ==
    IF StartsWithDataPdf(item.url)
    THEN OutItem("document", None,
                 Source("base64", "application/pdf", item.url.length, NoUrl),
                 item.cache_control)
    ELSE OutItem("document", None, Source("url", None, 0, item.url), item.cache_control)

\* item.get("model", "").split("/")[-1]
ItemModelName(item) == IF item.model = <<>> THEN "" ELSE LastPart(item.model)

PdfNotSupported ==
    Exception("ValueError",
              <<"PDF support is only available for models: ">>
              \o Join(SUPPORTED_PDF_MODELS, ", "))

\* the exception process_content raises on one item
ItemRaises(item) ==
    IF item.type = Missing THEN Exception("KeyError", <<"'type'">>)
    ELSE IF item.type = "image_url" THEN ProcessImageRaises(item)
    ELSE IF item.type = "pdf_url"
              /\ ItemModelName(item) \notin Range(SUPPORTED_PDF_MODELS)
         THEN PdfNotSupported
    ELSE NoException

\* faulty variant: an item of another type is passed on as it is
ProcessItem_KeepUnknown(item) ==
    IF item.type = "text" THEN << OutItem("text", item.text, NoSource, None) >>
    ELSE IF item.type = "image_url" THEN << process_image(item) >>
    ELSE IF item.type = "pdf_url" THEN << process_pdf(item) >>
    ELSE << OutItem(item.type, None, NoSource, None) >>

\* what process_content appends for one item: nothing for an item that is
\* neither text nor image_url nor pdf_url
ProcessItem(item) ==
    IF item.type = "text" THEN << OutItem("text", item.text, NoSource, None) >>
    ELSE IF item.type = "image_url" THEN << process_image(item) >>
    ELSE IF item.type = "pdf_url" THEN << process_pdf(item) >>
    ELSE <<>>

RECURSIVE ProcessItems(_)
ProcessItems(items) ==
    IF items = <<>> THEN <<>>
    ELSE ProcessItem(Head(items)) \o ProcessItems(Tail(items))

ProcessContentRaises(content) ==
    IF content.kind = "str" THEN NoException
    ELSE FirstRaised([i \in 1..Len(content.items) |-> ItemRaises(content.items[i])])

\* faulty variant: processed_content is shared between calls, so a call
\* returns what the calls before it appended too
process_content_Shared(content) ==
    (IF normalized = <<>> THEN <<>> ELSE normalized[Len(normalized)].value)
    \o (IF content.kind = "str" THEN << OutItem("text", content.text, NoSource, None) >>
        ELSE ProcessItems(content.items))

process_content(content) ==
    IF content.kind = "str" THEN << OutItem("text", content.text, NoSource, None) >>
    ELSE ProcessItems(content.items)

-----------------------------------------------------------------------------
(* Payload Builder: _process_messages and the payload of pipe *)

Digits == <<"0", "1", "2", "3", "4", "5", "6", "7", "8", "9">>

\* round(100 * image_size / (1024 * 1024)) with image_size = length * 3 / 4
Hundredths(length) == (length * 3 * 25 + 524288) \div (1024 * 1024)

\* f"{image_size / (1024 * 1024):.2f}", for sizes below 10 MB
FormatMB(length) ==
    LET h == Hundredths(length)
    IN  << Digits[(h \div 100) + 1], ".", Digits[((h \div 10) % 10) + 1],
           Digits[(h % 10) + 1] >>

\* faulty variant: the ceiling is compared with the encoded length
ExceedsMaxImageSize_Encoded(length) == length > MAX_IMAGE_SIZE

\* image_size = len(data) * 3 / 4; `image_size > self.MAX_IMAGE_SIZE`
ExceedsMaxImageSize(length) == length * 3 > MAX_IMAGE_SIZE * 4

\* the branch of the if/elif chain of _process_messages an item takes
Branch(role, item) ==
    IF role = "assistant" /\ item.type = "tool_calls" THEN "tool_calls"
    ELSE IF role = "user" /\ item.type = "tool_results" THEN "tool_results"
    ELSE IF item.type = "image" THEN "image"
    ELSE "other"

\* the exception the chain raises on one processed item
CheckRaises(role, item) ==
    IF Branch(role, item) = "image" /\ item.source.type = "base64"
    THEN IF ExceedsMaxImageSize(item.source.length)
         THEN Exception("ValueError",
                        <<"Image size exceeds 5MB limit: ">>
                        \o FormatMB(item.source.length) \o <<"MB">>)
         ELSE IF ~IsSupportedImageType(item.source.media_type)
         THEN UnsupportedMediaType(item.source.media_type)
         ELSE NoException
    ELSE NoException

\* the item the chain appends
Annotate(role, item) ==
    IF Branch(role, item) \in {"tool_calls", "tool_results"}
    THEN [item EXCEPT !.cache_control = Ephemeral]
    ELSE item

\* the exception one message raises: process_content runs over the whole
\* content before the first item is checked
MessageRaises(message) ==
    IF ProcessContentRaises(message.content) # NoException
    THEN ProcessContentRaises(message.content)
    ELSE LET items == process_content(message.content)
         IN  FirstRaised([i \in 1..Len(items) |-> CheckRaises(message.role, items[i])])

ProcessMessage(message) ==
    LET items == process_content(message.content)
    IN  [role |-> message.role,
         content |-> [i \in 1..Len(items) |-> Annotate(message.role, items[i])]]

ProcessMessagesRaises(messages) ==
    FirstRaised([i \in 1..Len(messages) |-> MessageRaises(messages[i])])

\* faulty variant: the messages are produced last first
_process_messages_Reversed(messages) ==
    [i \in 1..Len(messages) |-> ProcessMessage(messages[Len(messages) + 1 - i])]

\* one output message per input message, in order
_process_messages(messages) ==
    [i \in 1..Len(messages) |-> ProcessMessage(messages[i])]

RECURSIVE Without(_, _)
Without(messages, role) ==
    IF messages = <<>> THEN <<>>
    ELSE (IF Head(messages).role = role THEN <<>> ELSE <<Head(messages)>>)
         \o Without(Tail(messages), role)

\* pop_system_message(messages)[0]: <<>> for None, else the first system message
system_message(messages) ==
    IF \E i \in 1..Len(messages) : messages[i].role = "system"
    THEN << messages[CHOOSE i \in 1..Len(messages) :
                /\ messages[i].role = "system"
                /\ \A j \in 1..(i - 1) : messages[j].role # "system"] >>
    ELSE <<>>

\* pop_system_message(messages)[1]: the messages without the system messages
remaining_messages(messages) == Without(messages, "system")

\* str(system_message): the text of the message dict
StrOfMessage(message) ==
    <<"{'role': '", message.role, "', 'content': ">>
    \o (IF message.content.kind = "str" THEN <<"'", message.content.text, "'">>
        ELSE <<"[...]">>)
    \o <<"}">>

\* faulty variant: the ceiling of an unknown model is that of the newest models
max_tokens_limit_Newest(model_name) ==
    IF model_name \in DOMAIN MODEL_MAX_TOKENS
    THEN MODEL_MAX_TOKENS[model_name] ELSE 8192

\* self.MODEL_MAX_TOKENS.get(model_name, 4096)
max_tokens_limit(model_name) ==
    IF model_name \in DOMAIN MODEL_MAX_TOKENS
    THEN MODEL_MAX_TOKENS[model_name] ELSE DefaultMaxTokens

Min(a, b) == IF a <= b THEN a ELSE b

\* min(body.get("max_tokens", max_tokens_limit), max_tokens_limit)
max_tokens(requested, limit) ==
    Min(IF requested = <<>> THEN limit ELSE requested[1], limit)

\* float(x) and int(x) on the option values of the model
PyFloat(x) == IF x = "1" THEN "1.0" ELSE x

PyInt(x) == IF x = "40.9" THEN "40" ELSE x

\* the keys of the payload that hold None, str or number values
ScalarKeys == {"temperature", "top_k", "top_p", "stream"}

\* the dict literal of lines 202-221
PayloadLiteral(b, flag) ==
    [model |-> LastPart(b.model),
     messages |-> _process_messages(remaining_messages(b.messages)),
     max_tokens |-> max_tokens(b.max_tokens, max_tokens_limit(LastPart(b.model))),
     temperature |-> IF b.temperature # None THEN PyFloat(b.temperature) ELSE None,
     top_k |-> IF b.top_k # None THEN PyInt(b.top_k) ELSE None,
     top_p |-> IF b.top_p # None THEN PyFloat(b.top_p) ELSE None,
     stream |-> flag,
     metadata |-> "{}"]

\* {k: v for k, v in payload.items() if v is not None}
DropNone(d) ==
    [k \in {key \in DOMAIN d : ~(key \in ScalarKeys /\ d[key] = None)} |-> d[k]]

\* the payload as it stands at line 238
BuildPayload(b, flag) ==
    LET filtered == DropNone(PayloadLiteral(b, flag))
        system == IF system_message(b.messages) # <<>>
                  THEN "system" :> StrOfMessage(system_message(b.messages)[1])
                  ELSE <<>>
        tools == IF b.tools.present
                 THEN ("tools" :> << [type |-> "function", function |-> "get_weather"] >>)
                      @@ ("tool_choice" :> b.tools.tool_choice)
                 ELSE <<>>
        format == IF b.response_format.present
                  THEN "response_format" :> [type |-> b.response_format.type]
                  ELSE <<>>
    IN  format @@ tools @@ system @@ filtered

-----------------------------------------------------------------------------
(* Header Negotiator: lines 239-268 of pipe *)

ListMessages(messages) ==
    { messages[i] : i \in { j \in 1..Len(messages) : messages[j].content.kind = "list" } }

\* any(item.get("type") == "pdf_url" ...) over body["messages"]
BodyHasPdf(messages) ==
    \E m \in ListMessages(messages) : \E item \in Range(m.content.items) :
        item.type = "pdf_url"

\* any(item.get("cache_control") ...) over body["messages"]
BodyHasCacheControl(messages) ==
    \E m \in ListMessages(messages) : \E item \in Range(m.content.items) :
        item.cache_control # None

beta_headers(messages) ==
    IF BodyHasPdf(messages) \/ BodyHasCacheControl(messages)
    THEN (IF BodyHasPdf(messages) THEN <<PDF_BETA_HEADER>> ELSE <<>>)
         \o (IF BodyHasCacheControl(messages) THEN <<BETA_HEADER>> ELSE <<>>)
    ELSE <<>>

BuildHeaders(key, messages) ==
    LET base == [x_api_key |-> <<key>>, anthropic_version |-> <<"2023-06-01">>,
                 content_type |-> <<"application/json">>]
    IN  IF beta_headers(messages) # <<>>
        THEN ("anthropic_beta" :> Join(beta_headers(messages), ",")) @@ base
        ELSE base

-----------------------------------------------------------------------------
(* Initial state: one invocation of pipe on a Pipe instance whose
   request_id field is None or left over from an earlier invocation *)

StreamFlags == {"True", "False", None}

Truthy(flag) == flag = "True"

LeftOverIds == {None, "req_0"}

Providers(flag) ==
    CASE flag = "True"  -> { <<a>> : a \in StreamAnswers }
      [] flag = "False" -> [1..ScriptLen -> SendAnswers]
      [] OTHER          -> { <<>> }

\* a provider that answers every request with a plain 200
PlainProvider(flag) ==
    CASE flag = "True"  ->
           { << HttpAnswer(200, Headers(None, "req_1"), <<>>,
                           << Line(TRUE, Payload("json", TextDelta("A"))),
                              Line(TRUE, Payload("json", MessageStop)) >>, "eof") >> }
      [] flag = "False" ->
           { [i \in 1..ScriptLen |->
                 HttpAnswer(200, Headers(None, None), <<"hello">>, <<>>, "eof")] }
      [] OTHER          -> { <<>> }

ApiKeys == {"", "sk-ant-key"}

\* body.get("temperature") / ("top_k") / ("top_p")
Temperatures == {None, "1", "0.7", "warm"}

TopKs == {None, "40", "40.9"}

TopPs == {None, "0.9"}

\* the invocations of the model.  Each group varies one part of the request
\* and keeps the others plain.
\* the transport: any provider behaviour
TransportInit ==
    /\ api_key = "sk-ant-key"
    /\ body = PlainBody
    /\ stream \in StreamFlags
    /\ emitter \in BOOLEAN
    /\ provider \in Providers(stream)
    /\ request_id \in LeftOverIds

\* the valve: with and without an API key
KeyInit ==
    /\ api_key \in ApiKeys
    /\ body \in { PlainBody,
                  [PlainBody EXCEPT !.messages =
                      << Message("user", ListContent(
                            << ImageItem(DataUrl("image/bmp", 4), None) >>)) >>] }
    /\ stream \in StreamFlags
    /\ emitter \in BOOLEAN
    /\ provider \in PlainProvider(stream)
    /\ request_id \in LeftOverIds

\* the conversation: any content, under a model with and without PDF support
ContentInit ==
    /\ api_key = "sk-ant-key"
    /\ \E model \in { m \in Models : LastPart(m) \in DOMAIN MODEL_MAX_TOKENS },
          messages \in Conversations :
          body = [PlainBody EXCEPT !.model = model, !.messages = messages]
    /\ stream \in {"True", "False"}
    /\ emitter = TRUE
    /\ provider \in PlainProvider(stream)
    /\ request_id = None

\* the options: sampling values, tools and response format
OptionsInit ==
    /\ api_key = "sk-ant-key"
    /\ \E temperature \in Temperatures, top_k \in TopKs, top_p \in TopPs,
          tools \in ToolsRequests, response_format \in ResponseFormatRequests,
          messages \in { PlainConversation, <<SystemMessage>> \o PlainConversation } :
          body = Body(PlainBody.model, messages, <<>>, temperature, top_k, top_p,
                      tools, response_format)
    /\ stream \in StreamFlags
    /\ emitter = TRUE
    /\ provider \in PlainProvider(stream)
    /\ request_id = None

\* the output budget: any model with any requested max_tokens
TokensInit ==
    /\ api_key = "sk-ant-key"
    /\ \E model \in Models, requested \in MaxTokensRequests :
          body = [PlainBody EXCEPT !.model = model, !.max_tokens = requested]
    /\ stream \in {"True", "False"}
    /\ emitter = FALSE
    /\ provider \in PlainProvider(stream)
    /\ request_id = None

\* provider errors of a non-streaming request: a JSON or a plain body, with
\* or without an x-request-id header
ErrorAnswers ==
    { HttpAnswer(s, Headers(None, rid), text, <<>>, "eof") :
        s \in {400, 500}, rid \in RequestIds, text \in {ErrorBody, <<"overloaded">>} }

ProviderErrorInit ==
    /\ api_key = "sk-ant-key"
    /\ body = PlainBody
    /\ stream = "False"
    /\ emitter \in BOOLEAN
    /\ provider \in { [i \in 1..ScriptLen |-> a] : a \in ErrorAnswers }
    /\ request_id = None

\* the messages conversations of several messages are made of
MessagePool ==
    { SystemMessage,
      Message("system", StrContent("be formal")),
      Message("user", StrContent("hello")),
      Message("assistant", StrContent("hi there")),
      Message("user", ListContent(<< TextItem("hi", None), OtherItem("audio"),
                                     ImageItem(RemoteUrl, None) >>)) }

\* the order of the messages: conversations of up to MaxMessages messages
OrderInit ==
    /\ api_key = "sk-ant-key"
    /\ \E messages \in SeqsUpTo(MessagePool, MaxMessages) \ { <<>> } :
          body = [PlainBody EXCEPT !.messages = messages]
    /\ stream = "False"
    /\ emitter = FALSE
    /\ provider \in PlainProvider(stream)
    /\ request_id = None

Init ==
    /\ \/ TransportInit
       \/ KeyInit
       \/ ContentInit
       \/ OptionsInit
       \/ TokensInit
       \/ ProviderErrorInit
       \/ OrderInit
    /\ normalized = <<>>
    /\ request_payload = <<>>
    /\ request_headers = <<>>
    /\ pc = "entry"
    /\ retry_count = 0
    /\ calls = 0
    /\ waits = <<>>
    /\ response = EmptyResponse
    /\ exc = NoException
    /\ result = NoResult
    /\ fragments = <<>>
    /\ pos = 1
    /\ events = <<>>
    /\ visited = <<>>

-----------------------------------------------------------------------------
(* pipe, up to the dispatch on payload["stream"] *)

MissingKeyEvent == StatusEvent(<<"Error: ANTHROPIC_API_KEY is required">>, TRUE)

ProcessingEvent == StatusEvent(<<"Processing request...">>, FALSE)

\* faulty variant: the key is never found missing
HasNoApiKey_Never(key) == FALSE

\* `not self.valves.ANTHROPIC_API_KEY`
HasNoApiKey(key) == key = ""

\* no API key: one status event, an error content, nothing else
PipeNoApiKey ==
    /\ pc = "entry"
    /\ HasNoApiKey(api_key)
    /\ events' = Emit(MissingKeyEvent)
    /\ result' = ErrorResult(<<"Error: ANTHROPIC_API_KEY is required">>)
    /\ pc' = "done"
    /\ UNCHANGED <<normalized, api_key, body, request_payload, request_headers, stream, emitter,
                   provider, retry_count, calls, waits, response, exc, fragments, pos,
                   request_id, visited>>

\* pop_system_message, then the "Processing request..." event is awaited
PipeBegin ==
    /\ pc = "entry"
    /\ ~HasNoApiKey(api_key)
    /\ events' = Emit(ProcessingEvent)
    /\ pc' = "build"
    /\ UNCHANGED <<normalized, api_key, body, request_payload, request_headers, stream, emitter,
                   provider, retry_count, calls, waits, response, exc, result, fragments,
                   pos, request_id, visited>>

\* float(body.get("temperature")) on a value that is no number
PyFloatRaises(x) ==
    IF x = "warm"
    THEN Exception("ValueError", <<"could not convert string to float: '", x, "'">>)
    ELSE NoException

\* the first exception of lines 199-268, in the order of evaluation
BuildRaises(b) ==
    FirstRaised(<< ProcessMessagesRaises(remaining_messages(b.messages)),
                   PyFloatRaises(b.temperature) >>)

\* lines 199-268: payload and headers are built
PipeBuild ==
    /\ pc = "build"
    /\ BuildRaises(body) = NoException
    /\ request_payload' = BuildPayload(body, stream)
    /\ request_headers' = BuildHeaders(api_key, body.messages)
    /\ pc' = "pipe"
    /\ UNCHANGED <<normalized, api_key, body, stream, emitter, provider, retry_count, calls, waits,
                   response, exc, result, fragments, pos, request_id, events, visited>>

\* lines 199-268 raise: no payload, no headers, no call
PipeBuildFails ==
    /\ pc = "build"
    /\ BuildRaises(body) # NoException
    /\ exc' = BuildRaises(body)
    /\ pc' = "pipe_raised"
    /\ UNCHANGED <<normalized, api_key, body, request_payload, request_headers, stream, emitter,
                   provider, retry_count, calls, waits, response, result, fragments, pos,
                   request_id, events, visited>>

\* body.get("stream") is None: the key is filtered out of the payload and
\* payload["stream"] raises KeyError
PipeStreamMissing ==
    /\ pc = "pipe"
    /\ "stream" \notin DOMAIN request_payload
    /\ exc' = Exception("KeyError", <<"'stream'">>)
    /\ pc' = "pipe_raised"
    /\ UNCHANGED <<normalized, api_key, body, request_payload, request_headers, stream, emitter,
                   provider, retry_count, calls, waits, response, result, fragments, pos,
                   request_id, events, visited>>

\* payload["stream"] is truthy: the generator is returned to the caller
PipeReturnStream ==
    /\ pc = "pipe"
    /\ "stream" \in DOMAIN request_payload
    /\ Truthy(request_payload.stream)
    /\ result' = GeneratorResult
    /\ visited' = <<"AwaitingFirstByte">>
    /\ pc' = "gen_post"
    /\ UNCHANGED <<normalized, api_key, body, request_payload, request_headers, stream, emitter,
                   provider, retry_count, calls, waits, response, exc, fragments, pos,
                   request_id, events>>

\* payload["stream"] is False: _send_request is entered
PipeCallSend ==
    /\ pc = "pipe"
    /\ "stream" \in DOMAIN request_payload
    /\ ~Truthy(request_payload.stream)
    /\ retry_count' = 0
    /\ pc' = "send"
    /\ UNCHANGED <<normalized, api_key, body, request_payload, request_headers, stream, emitter,
                   provider, calls, waits, response, exc, result, fragments, pos,
                   request_id, events, visited>>

-----------------------------------------------------------------------------
(* _send_request *)

\* faulty variant: every status from 429 upwards is retried
IsRateLimited_From429(r) == r.status_code >= 429

\* `if response.status_code == 429`
IsRateLimited(r) == r.status_code = 429

\* `while retry_count < max_retries`
MayAttempt(count) == count < max_retries

\* int(response.headers.get("retry-after", base_delay * (2**retry_count)))
RetryAfterRaises(r) ==
    /\ r.headers.retry_after # None
    /\ ~IsIntLiteral(r.headers.retry_after)

retry_after(r, count) ==
    IF r.headers.retry_after = None
    THEN base_delay * (2 ^ count)
    ELSE IntOf(r.headers.retry_after)

\* the answer to the request that is issued next
NextAnswer == provider[calls + 1]

\* 429: sleep, count the retry, go round the loop
SendRateLimited ==
    /\ pc = "send"
    /\ MayAttempt(retry_count)
    /\ NextAnswer.kind = "http"
    /\ IsRateLimited(NextAnswer)
    /\ ~RetryAfterRaises(NextAnswer)
    /\ calls' = calls + 1
    /\ response' = NextAnswer
    /\ waits' = Append(waits, retry_after(NextAnswer, retry_count))
    /\ retry_count' = retry_count + 1
    /\ UNCHANGED <<normalized, api_key, body, request_payload, request_headers, stream, emitter, provider, pc, exc, result, fragments,
                   pos, request_id, events, visited>>

\* 429 whose retry-after header is no integer: int() raises ValueError,
\* which is no RequestException and leaves _send_request
SendRetryAfterInvalid ==
    /\ pc = "send"
    /\ MayAttempt(retry_count)
    /\ NextAnswer.kind = "http"
    /\ IsRateLimited(NextAnswer)
    /\ RetryAfterRaises(NextAnswer)
    /\ calls' = calls + 1
    /\ response' = NextAnswer
    /\ exc' = Exception("ValueError",
                        <<"invalid literal for int() with base 10: ",
                          NextAnswer.headers.retry_after>>)
    /\ pc' = "pipe_raised"
    /\ UNCHANGED <<normalized, api_key, body, request_payload, request_headers, stream, emitter, provider, retry_count, waits, result,
                   fragments, pos, request_id, events, visited>>

\* any other status: `return response`
SendReturn ==
    /\ pc = "send"
    /\ MayAttempt(retry_count)
    /\ NextAnswer.kind = "http"
    /\ ~IsRateLimited(NextAnswer)
    /\ calls' = calls + 1
    /\ response' = NextAnswer
    /\ pc' = "send_returned"
    /\ UNCHANGED <<normalized, api_key, body, request_payload, request_headers, stream, emitter, provider, retry_count, waits, exc, result,
                   fragments, pos, request_id, events, visited>>

\* requests.post raises a RequestException: logged and re-raised
SendFailure ==
    /\ pc = "send"
    /\ MayAttempt(retry_count)
    /\ NextAnswer.kind = "failure"
    /\ calls' = calls + 1
    /\ exc' = Exception("RequestException", NextAnswer.error)
    /\ pc' = "pipe_raised"
    /\ UNCHANGED <<normalized, api_key, body, request_payload, request_headers, stream, emitter, provider, retry_count, waits, response,
                   result, fragments, pos, request_id, events, visited>>

\* the loop condition fails: `return requests.Response()`
SendMaxRetries ==
    /\ pc = "send"
    /\ ~MayAttempt(retry_count)
    /\ response' = EmptyResponse
    /\ pc' = "send_returned"
    /\ UNCHANGED <<normalized, api_key, body, request_payload, request_headers, stream, emitter, provider, retry_count, calls, waits, exc,
                   result, fragments, pos, request_id, events, visited>>

-----------------------------------------------------------------------------
(* pipe, after _send_request *)

\* `if response.status_code != 200`: the error text is returned, no event
PipeErrorStatus ==
    /\ pc = "send_returned"
    /\ response.status_code # 200
    /\ result' = ErrorResult(<<"Error: HTTP ", FormatStatus(response.status_code), ": ">>
                             \o response.text)
    /\ pc' = "done"
    /\ UNCHANGED <<normalized, api_key, body, request_payload, request_headers, stream, emitter, provider, retry_count, calls, waits,
                   response, exc, fragments, pos, request_id, events, visited>>

\* 200: the first text block is the reply
PipeSuccess ==
    /\ pc = "send_returned"
    /\ response.status_code = 200
    /\ events' = Emit(StatusEvent(<<"Request completed successfully">>, TRUE))
    /\ result' = TextResult(response.text)
    /\ pc' = "done"
    /\ UNCHANGED <<normalized, api_key, body, request_payload, request_headers, stream, emitter, provider, retry_count, calls, waits,
                   response, exc, fragments, pos, request_id, visited>>

\* `except requests.exceptions.RequestException`
PipeRequestFailed ==
    /\ pc = "pipe_raised"
    /\ exc.type = "RequestException"
    /\ LET error_msg == WithRequestId(<<"Request failed: ">> \o exc.message, request_id)
       IN  /\ events' = Emit(StatusEvent(error_msg, TRUE))
           /\ result' = ErrorResult(error_msg)
    /\ exc' = NoException
    /\ pc' = "done"
    /\ UNCHANGED <<normalized, api_key, body, request_payload, request_headers, stream, emitter, provider, retry_count, calls, waits,
                   response, fragments, pos, request_id, visited>>

\* the exception classes of the model that derive from Exception
ExceptionClasses ==
    {"KeyError", "ValueError", "UnicodeDecodeError", "JSONDecodeError",
     "ClientError", "ClientPayloadError", "RequestException"}

\* faulty variant: the handler is `except ValueError`
IsException_ValueError(e) == e.type = "ValueError"

\* isinstance(e, Exception)
IsException(e) == e.type \in ExceptionClasses

\* `except Exception`, for what the inner handler did not take
PipeFailed ==
    /\ pc = "pipe_raised"
    /\ exc.type # "RequestException"
    /\ IsException(exc)
    /\ LET error_msg == WithRequestId(<<"Error: ">> \o exc.message, request_id)
       IN  /\ events' = Emit(StatusEvent(error_msg, TRUE))
           /\ result' = ErrorResult(error_msg)
    /\ exc' = NoException
    /\ pc' = "done"
    /\ UNCHANGED <<normalized, api_key, body, request_payload, request_headers, stream, emitter, provider, retry_count, calls, waits,
                   response, fragments, pos, request_id, visited>>

-----------------------------------------------------------------------------
(* _stream_with_ui: the decoding of one line *)

\* json.loads(line[6:]): the exception it raises, None when it returns
JsonLoadsRaises(payload) ==
    CASE payload.form = "json"     -> None
      [] payload.form = "not_utf8" -> "UnicodeDecodeError"
      [] OTHER                     -> "JSONDecodeError"

\* data["type"] / data["delta"] of a parsed event: the key whose lookup
\* raises KeyError, None when the conditions of the if/elif evaluate
MissingKey(data) ==
    IF "type" \notin DOMAIN data THEN "'type'"
    ELSE IF data.type = "content_block_delta" /\ "delta" \notin DOMAIN data
         THEN "'delta'"
         ELSE None

\* the exception raised inside the try block of one data line
LineException(line) ==
    IF JsonLoadsRaises(line.payload) # None
    THEN Exception(JsonLoadsRaises(line.payload), <<"cannot decode the line">>)
    ELSE IF MissingKey(line.payload.object) # None
         THEN Exception("KeyError", <<MissingKey(line.payload.object)>>)
         ELSE NoException

\* faulty variants: the except clause of the loop body catches nothing / everything
CaughtInLoop_Nothing(e) == FALSE

CaughtInLoop_Everything(e) == TRUE

\* `except json.JSONDecodeError`: logged, `continue`
CaughtInLoop(e) == e.type = "JSONDecodeError"

\* `data["type"] == "content_block_delta" and "text" in data["delta"]`
IsTextDelta(data) ==
    /\ data.type = "content_block_delta"
    /\ "text" \in DOMAIN data.delta

\* faulty variant: message_stop does not end the loop
IsMessageStop_Never(data) == FALSE

\* `elif data["type"] == "message_stop"`
IsMessageStop(data) == data.type = "message_stop"

\* `if line and line.startswith(b"data: ")`
IsDataLine(line) == line.data

\* what the loop body does with one line
LineStep(line) ==
    IF ~IsDataLine(line) THEN "skip"
    ELSE IF LineException(line) # NoException
         THEN (IF CaughtInLoop(LineException(line)) THEN "continue" ELSE "raise")
         ELSE IF IsTextDelta(line.payload.object) THEN "yield"
         ELSE IF IsMessageStop(line.payload.object) THEN "stop"
         ELSE "ignore"

-----------------------------------------------------------------------------
(* _stream_with_ui: the generator *)

\* faulty variant: the body text is left out of the message
StreamStatusError_NoBody(r, rid) ==
    WithRequestId(<<"Error: HTTP ", FormatStatus(r.status_code)>>, rid)

\* f"Error: HTTP {response.status}: {await response.text()}" [+ request id]
StreamStatusError(r, rid) ==
    WithRequestId(<<"Error: HTTP ", FormatStatus(r.status_code), ": ">> \o r.text, rid)

\* f"Stream error: {str(e)}" [+ request id]
StreamError(e, rid) == WithRequestId(<<"Stream error: ">> \o e.message, rid)

\* faulty variant: the handler reports the status event and yields nothing
StreamFails_NoYield(e) ==
    /\ events' = Emit(StatusEvent(StreamError(e, request_id), TRUE))
    /\ fragments' = fragments
    /\ visited' = Append(visited, "Errored")
    /\ pc' = "gen_done"

\* the `except Exception` handler of the generator
StreamFails(e) ==
    /\ events' = Emit(StatusEvent(StreamError(e, request_id), TRUE))
    /\ fragments' = Append(fragments, StreamError(e, request_id))
    /\ visited' = Append(visited, "Errored")
    /\ pc' = "gen_done"

\* session.post raises: no response is received
StreamConnectFailed ==
    /\ pc = "gen_post"
    /\ provider[1].kind = "failure"
    /\ calls' = calls + 1
    /\ StreamFails(Exception("ClientError", provider[1].error))
    /\ UNCHANGED <<normalized, api_key, body, request_payload, request_headers, stream, emitter, provider, retry_count, waits, response,
                   exc, result, pos, request_id>>

\* the response arrives: `self.request_id = response.headers.get("x-request-id")`
StreamResponse ==
    /\ pc = "gen_post"
    /\ provider[1].kind = "http"
    /\ calls' = calls + 1
    /\ response' = provider[1]
    /\ request_id' = provider[1].headers.x_request_id
    /\ visited' = Append(visited, "Streaming")
    /\ pc' = "gen_response"
    /\ UNCHANGED <<normalized, api_key, body, request_payload, request_headers, stream, emitter, provider, retry_count, waits, exc, result,
                   fragments, pos, events>>

\* `if response.status != 200`: one error fragment, `return`
StreamErrorStatus ==
    /\ pc = "gen_response"
    /\ response.status_code # 200
    /\ events' = Emit(StatusEvent(StreamStatusError(response, request_id), TRUE))
    /\ fragments' = Append(fragments, StreamStatusError(response, request_id))
    /\ visited' = Append(visited, "Errored")
    /\ pc' = "gen_done"
    /\ UNCHANGED <<normalized, api_key, body, request_payload, request_headers, stream, emitter, provider, retry_count, calls, waits,
                   response, exc, result, pos, request_id>>

\* `async for line in response.content` has a next line
Reading ==
    /\ pc = "gen_response"
    /\ response.status_code = 200
    /\ pos <= Len(response.lines)

\* a line without the "data: " prefix
StreamSkipLine ==
    /\ Reading
    /\ LineStep(response.lines[pos]) = "skip"
    /\ pos' = pos + 1
    /\ UNCHANGED <<normalized, api_key, body, request_payload, request_headers, stream, emitter, provider, pc, retry_count, calls, waits,
                   response, exc, result, fragments, request_id, events, visited>>

\* an event that is neither a text delta nor message_stop
StreamIgnoreEvent ==
    /\ Reading
    /\ LineStep(response.lines[pos]) = "ignore"
    /\ pos' = pos + 1
    /\ UNCHANGED <<normalized, api_key, body, request_payload, request_headers, stream, emitter, provider, pc, retry_count, calls, waits,
                   response, exc, result, fragments, request_id, events, visited>>

\* JSONDecodeError: logged, `continue`
StreamSkipMalformed ==
    /\ Reading
    /\ LineStep(response.lines[pos]) = "continue"
    /\ pos' = pos + 1
    /\ UNCHANGED <<normalized, api_key, body, request_payload, request_headers, stream, emitter, provider, pc, retry_count, calls, waits,
                   response, exc, result, fragments, request_id, events, visited>>

\* `yield data["delta"]["text"]`
StreamYieldText ==
    /\ Reading
    /\ LineStep(response.lines[pos]) = "yield"
    /\ fragments' = Append(fragments, <<response.lines[pos].payload.object.delta.text>>)
    /\ pos' = pos + 1
    /\ UNCHANGED <<normalized, api_key, body, request_payload, request_headers, stream, emitter, provider, pc, retry_count, calls, waits,
                   response, exc, result, request_id, events, visited>>

\* message_stop: completion event, `break`
StreamMessageStop ==
    /\ Reading
    /\ LineStep(response.lines[pos]) = "stop"
    /\ events' = Emit(StatusEvent(<<"Request completed">>, TRUE))
    /\ pos' = pos + 1
    /\ visited' = Append(visited, "Completed")
    /\ pc' = "gen_done"
    /\ UNCHANGED <<normalized, api_key, body, request_payload, request_headers, stream, emitter, provider, retry_count, calls, waits,
                   response, exc, result, fragments, request_id>>

\* an exception of the loop body that its except clause does not catch
StreamLineRaises ==
    /\ Reading
    /\ LineStep(response.lines[pos]) = "raise"
    /\ pos' = pos + 1
    /\ StreamFails(LineException(response.lines[pos]))
    /\ UNCHANGED <<normalized, api_key, body, request_payload, request_headers, stream, emitter, provider, retry_count, calls, waits,
                   response, exc, result, request_id>>

\* the body ends: the loop and the generator finish
StreamEnd ==
    /\ pc = "gen_response"
    /\ response.status_code = 200
    /\ pos > Len(response.lines)
    /\ response.ending = "eof"
    /\ visited' = Append(visited, "Completed")
    /\ pc' = "gen_done"
    /\ UNCHANGED <<normalized, api_key, body, request_payload, request_headers, stream, emitter, provider, retry_count, calls, waits,
                   response, exc, result, fragments, pos, request_id, events>>

\* reading the next line raises: the connection was lost
StreamConnectionLost ==
    /\ pc = "gen_response"
    /\ response.status_code = 200
    /\ pos > Len(response.lines)
    /\ response.ending = "reset"
    /\ StreamFails(Exception("ClientPayloadError",
                             <<"Response payload is not completed">>))
    /\ UNCHANGED <<normalized, api_key, body, request_payload, request_headers, stream, emitter, provider, retry_count, calls, waits,
                   response, exc, result, pos, request_id>>

-----------------------------------------------------------------------------

Next ==
    \/ PipeNoApiKey
    \/ PipeBegin
    \/ PipeBuild
    \/ PipeBuildFails
    \/ PipeStreamMissing
    \/ PipeReturnStream
    \/ PipeCallSend
    \/ SendRateLimited
    \/ SendRetryAfterInvalid
    \/ SendReturn
    \/ SendFailure
    \/ SendMaxRetries
    \/ PipeErrorStatus
    \/ PipeSuccess
    \/ PipeRequestFailed
    \/ PipeFailed
    \/ StreamConnectFailed
    \/ StreamResponse
    \/ StreamErrorStatus
    \/ StreamSkipLine
    \/ StreamIgnoreEvent
    \/ StreamSkipMalformed
    \/ StreamYieldText
    \/ StreamMessageStop
    \/ StreamLineRaises
    \/ StreamEnd
    \/ StreamConnectionLost

Spec == Init /\ [][Next]_vars

-----------------------------------------------------------------------------
(* process_content called on its own, more than once on the same object *)

\* how many times the caller calls process_content on the content it holds
NormalizerCalls == 2

\* the variables no filter or stand-alone call touches
PipeIdle ==
    /\ api_key = "sk-ant-key"
    /\ request_payload = <<>>
    /\ request_headers = <<>>
    /\ stream = "False"
    /\ retry_count = 0
    /\ waits = <<>>
    /\ response = EmptyResponse
    /\ result = NoResult
    /\ fragments = <<>>
    /\ pos = 1
    /\ request_id = None
    /\ visited = <<>>

NormalizerInit ==
    /\ PipeIdle
    /\ normalized = <<>>
    /\ body \in { [PlainBody EXCEPT !.messages = << Message("user", content) >>] :
                    content \in Contents }
    /\ emitter = FALSE
    /\ provider = <<>>
    /\ pc = "normalize"
    /\ calls = 0
    /\ exc = NoException
    /\ events = <<>>

\* the argument of the call: the caller's message["content"]
NormalizerInput == body.messages[1].content

\* one call of process_content that returns: it builds a new list
\* (processed_content) and new dicts, and assigns to no key of its argument
NormalizeReturns ==
    /\ pc = "normalize"
    /\ Len(normalized) < NormalizerCalls
    /\ ProcessContentRaises(NormalizerInput) = NoException
    /\ normalized' = Append(normalized,
                            [input |-> NormalizerInput,
                             raised |-> NoException,
                             value |-> process_content(NormalizerInput)])
    /\ UNCHANGED <<api_key, body, request_payload, request_headers, stream, emitter,
                   provider, pc, retry_count, calls, waits, response, exc, result,
                   fragments, pos, request_id, events, visited>>

\* one call of process_content that raises the validation error of the
\* first offending item: nothing is returned
NormalizeRaises ==
    /\ pc = "normalize"
    /\ Len(normalized) < NormalizerCalls
    /\ ProcessContentRaises(NormalizerInput) # NoException
    /\ normalized' = Append(normalized,
                            [input |-> NormalizerInput,
                             raised |-> ProcessContentRaises(NormalizerInput),
                             value |-> <<>>])
    /\ UNCHANGED <<api_key, body, request_payload, request_headers, stream, emitter,
                   provider, pc, retry_count, calls, waits, response, exc, result,
                   fragments, pos, request_id, events, visited>>

NormalizerNext == NormalizeReturns \/ NormalizeRaises

NormalizerSpec == NormalizerInit /\ [][NormalizerNext]_vars

-----------------------------------------------------------------------------
(* Properties of Transport/Retry *)

NonDecreasing(q) == \A i \in 1..(Len(q) - 1) : q[i] <= q[i + 1]

\* a 429 answer whose retry-after header, if any, is an integer
RateLimitAnswer(a) ==
    /\ a.kind = "http"
    /\ a.status_code = 429
    /\ a.headers.retry_after \in {None, "1", "3"}

\* _send_request has ended, by a return or by an exception
SendEnded == stream = "False" /\ pc \in {"send_returned", "pipe_raised", "done"}

\* C1: when the provider answers 429, 429, 429 and then 200, _send_request
\* performs three retries (four calls), waits non-decreasing intervals and
\* returns the final 200 response.
C1_ThreeRetriesThenSuccess ==
    ( /\ stream = "False"
      /\ pc = "send_returned"
      /\ \A k \in 1..3 : RateLimitAnswer(provider[k])
      /\ provider[4].kind = "http"
      /\ provider[4].status_code = 200 )
    => ( /\ calls = 4
         /\ Len(waits) = 3
         /\ NonDecreasing(waits)
         /\ response = provider[4] )

\* C2: when every attempt up to the maximum is answered 429, the value
\* returned by _send_request is the last response received, untouched, so
\* that the caller's status check sees the 429.
C2_ExhaustedReturnsLastResponse ==
    ( /\ stream = "False"
      /\ pc \in {"send_returned", "done"}
      /\ calls = max_retries
      /\ \A k \in 1..max_retries : RateLimitAnswer(provider[k]) )
    => ( /\ response = provider[max_retries]
         /\ response.status_code = 429 )

\* C3: a 429 answer is retried for every request the adapter sends, a
\* streaming request included: the stream decoder yields nothing for a 429
\* answer unless the request was retried.
C3_RateLimitRetriedForStreams ==
    /\ ( /\ stream = "False"
         /\ pc \in {"send_returned", "done"}
         /\ RateLimitAnswer(provider[1]) )
       => calls > 1
    /\ ( /\ stream = "True"
         /\ pc = "gen_done"
         /\ RateLimitAnswer(provider[1]) )
       => calls > 1

\* C4: the wait after the k-th rate-limit answer is the retry-after value
\* when the answer carries one and base_delay * 2^k otherwise, and every
\* wait is followed by a retry attempt.
C4_BackoffThenRetry ==
    stream = "False" =>
        /\ \A k \in 1..Len(waits) :
               waits[k] = IF provider[k].headers.retry_after = "3" THEN 3
                          ELSE IF provider[k].headers.retry_after = "1" THEN 1
                          ELSE base_delay * (2 ^ (k - 1))
        /\ SendEnded => Len(waits) < calls

\* C5: only a 429 answer is followed by another attempt; an answer with any
\* other status is returned as it is by the attempt that received it, with
\* no wait after it, and a network failure is raised at once.
C5_RetryOnlyOn429 ==
    stream = "False" =>
        /\ \A k \in 1..(calls - 1) :
               provider[k].kind = "http" /\ provider[k].status_code = 429
        /\ ( /\ calls >= 1
             /\ provider[calls].kind = "http"
             /\ provider[calls].status_code # 429 )
           => ( /\ pc \in {"send_returned", "done"}
                /\ response = provider[calls]
                /\ Len(waits) = calls - 1 )
        /\ ( calls >= 1 /\ provider[calls].kind = "failure" )
           => ( /\ pc \in {"pipe_raised", "done"}
                /\ pc = "pipe_raised" =>
                       exc = Exception("RequestException", provider[calls].error)
                /\ pc = "done" => result.kind = "error"
                /\ Len(waits) = calls - 1 )

C5_Witness ==
    /\ stream = "False"
    /\ pc = "send_returned"
    /\ calls = 2
    /\ provider[1].status_code = 429
    /\ provider[2].status_code = 500
    /\ response = provider[2]
    /\ waits = <<1>>

-----------------------------------------------------------------------------
(* Properties of the stream decoder *)

ContainsToken(msg, token) == \E i \in 1..Len(msg) : msg[i] = token

ContainsText(msg, part) ==
    \E i \in 0..(Len(msg) - Len(part)) : SubSeq(msg, i + 1, i + Len(part)) = part

Last(q) == q[Len(q)]

StopLine == Line(TRUE, Payload("json", MessageStop))

\* data lines that carry an event of the protocol
WellFormedLines ==
    { Line(TRUE, Payload("json", o)) :
        o \in {TextDelta("A"), TextDelta("B"), JsonDelta, Ping, MessageStop} }

\* data lines on which the loop body raises something else than a
\* JSONDecodeError
RaisingLines ==
    { UndecodableLine, Line(TRUE, Payload("json", NoTypeEvent)),
      Line(TRUE, Payload("json", NoDeltaEvent)) }

\* the text fields of the text deltas of a sequence of lines, in order
RECURSIVE Texts(_)
Texts(lines) ==
    IF lines = <<>> THEN <<>>
    ELSE LET o == Head(lines).payload.object
         IN  (IF Head(lines) \in WellFormedLines /\ o.type = "content_block_delta"
                 /\ "text" \in DOMAIN o.delta
              THEN << <<o.delta.text>> >> ELSE <<>>) \o Texts(Tail(lines))

\* index of the first line in S, Len(lines) + 1 when there is none
FirstIn(lines, S) ==
    IF \E i \in 1..Len(lines) : lines[i] \in S
    THEN CHOOSE i \in 1..Len(lines) :
             lines[i] \in S /\ \A j \in 1..(i - 1) : lines[j] \notin S
    ELSE Len(lines) + 1

Before(lines, S) == SubSeq(lines, 1, FirstIn(lines, S) - 1)

HasStop(lines) == \E i \in 1..Len(lines) : lines[i] = StopLine

\* a streaming run that has ended after a 200 response
StreamDone200 ==
    /\ stream = "True"
    /\ pc = "gen_done"
    /\ provider[1].kind = "http"
    /\ provider[1].status_code = 200

\* C6: after a 200 response whose body consists of well-formed data lines,
\* the fragments yielded are exactly the text fields of the text deltas that
\* precede the first message_stop, in order, and nothing else.
C6_TextDeltasBeforeStop ==
    ( /\ StreamDone200
      /\ \A i \in 1..Len(provider[1].lines) : provider[1].lines[i] \in WellFormedLines
      /\ HasStop(provider[1].lines) \/ provider[1].ending = "eof" )
    => fragments = Texts(Before(provider[1].lines, {StopLine}))

C6_Witness ==
    /\ StreamDone200
    /\ provider[1].lines = << Line(TRUE, Payload("json", TextDelta("A"))),
                              Line(TRUE, Payload("json", TextDelta("B"))),
                              StopLine >>
    /\ fragments = << <<"A">>, <<"B">> >>

\* C7: when the initial response is not a 200, exactly one fragment is
\* yielded, it contains the status code and the error text of the body, no
\* line of the stream is read and the run ends.
C7_ErrorStatusOneFragment ==
    ( /\ stream = "True"
      /\ pc = "gen_done"
      /\ provider[1].kind = "http"
      /\ provider[1].status_code # 200 )
    => ( /\ Len(fragments) = 1
         /\ ContainsToken(fragments[1],
                          IF provider[1].status_code = 401 THEN "401" ELSE "429")
         /\ ContainsText(fragments[1], provider[1].text)
         /\ ContainsToken(fragments[1], "invalid_api_key")
         /\ pos = 1
         /\ ~ENABLED Next )

C7_Witness ==
    /\ stream = "True"
    /\ pc = "gen_done"
    /\ provider[1].status_code = 401
    /\ fragments = << <<"Error: HTTP ", "401", ": ">> \o ErrorBody >>

Aborts(a) ==
    \/ a.kind = "failure"
    \/ /\ a.kind = "http"
       /\ a.status_code = 200
       /\ LET i == FirstIn(a.lines, RaisingLines \cup {StopLine})
          IN  IF i <= Len(a.lines) THEN a.lines[i] \in RaisingLines
              ELSE a.ending = "reset"

\* C9: when such an exception occurs, the fragments are the text deltas
\* yielded before it followed by exactly one error fragment, and nothing
\* more is yielded.
C9_OtherExceptionOneErrorFragment ==
    ( /\ stream = "True"
      /\ pc = "gen_done"
      /\ Aborts(provider[1]) )
    => ( /\ Len(fragments) >= 1
         /\ Last(fragments)[1] = "Stream error: "
         /\ SubSeq(fragments, 1, Len(fragments) - 1)
              = Texts(Before(provider[1].lines, RaisingLines \cup {StopLine}))
         /\ ~ENABLED Next )

C9_Witness ==
    /\ StreamDone200
    /\ provider[1].lines = << Line(TRUE, Payload("json", TextDelta("A"))),
                              Line(TRUE, Payload("json", NoTypeEvent)),
                              Line(TRUE, Payload("json", TextDelta("B"))) >>
    /\ Len(fragments) = 2
    /\ fragments[1] = <<"A">>
    /\ fragments[2][1] = "Stream error: "
    /\ fragments[2][2] = "'type'"

\* C10 as stated: every streaming run goes AwaitingFirstByte -> Streaming ->
\* Completed or Errored.
C10_AlwaysThroughStreaming ==
    (stream = "True" /\ pc = "gen_done")
    => visited \in { <<"AwaitingFirstByte", "Streaming", "Completed">>,
                     <<"AwaitingFirstByte", "Streaming", "Errored">> }

\* C10, amended: every streaming run starts in AwaitingFirstByte and ends in
\* exactly one of Completed or Errored; it passes through Streaming exactly
\* when a response is received, and goes from AwaitingFirstByte directly to
\* Errored when the request fails before any response.  Completed is entered
\* on message_stop or stream end, Errored on a non-200 status or a failure;
\* both are terminal and one outbound request is issued per run.
C10_StreamStateMachine ==
    stream = "True" =>
        /\ pc = "pipe" => visited = <<>>
        /\ pc = "gen_post" => visited = <<"AwaitingFirstByte">> /\ calls = 0
        /\ pc = "gen_response" =>
               visited = <<"AwaitingFirstByte", "Streaming">> /\ calls = 1
        /\ pc = "gen_done" =>
               /\ calls = 1
               /\ ~ENABLED Next
               /\ IF provider[1].kind = "failure"
                  THEN visited = <<"AwaitingFirstByte", "Errored">>
                  ELSE IF provider[1].status_code # 200 \/ Aborts(provider[1])
                  THEN visited = <<"AwaitingFirstByte", "Streaming", "Errored">>
                  ELSE visited = <<"AwaitingFirstByte", "Streaming", "Completed">>

C10_Witness ==
    /\ stream = "True"
    /\ pc = "gen_done"
    /\ provider[1].kind = "http"
    /\ provider[1].status_code = 200
    /\ provider[1].lines = << Line(TRUE, Payload("json", TextDelta("A"))), StopLine >>
    /\ visited = <<"AwaitingFirstByte", "Streaming", "Completed">>
    /\ calls = 1

-----------------------------------------------------------------------------
(* Properties of the payload builder, the content normalizer and the header
   negotiator *)

\* an outbound request has been issued
Sent == calls > 0

\* the content items of the request body, system messages left out
InputItems ==
    UNION { Range(m.content.items) : m \in Range(remaining_messages(body.messages)) }

\* the content items of the outbound messages
SentItems ==
    IF request_payload = <<>> THEN {}
    ELSE UNION { Range(m.content) : m \in Range(request_payload.messages) }

\* the optional fields of a payload that are present with the value None
NullFields(payload) ==
    { k \in DOMAIN payload \cap {"temperature", "top_k", "top_p", "stream", "tool_choice"} :
        payload[k] = None }
    \cup { k \in DOMAIN payload \cap {"response_format"} : payload[k].type = None }
    \cup { k \in DOMAIN payload \cap {"system"} : payload[k] = <<>> }

\* C11: no field of an outbound request body is null: an optional field
\* whose value is absent or None is left out of the payload.
C11_NoNullField ==
    Sent => NullFields(request_payload) = {}

\* C12: the max_tokens sent is the requested value capped by the ceiling of
\* the model name after the provider prefix, the ceiling itself when nothing
\* is requested; the ceiling of a model that is not in the table is 4096.
C12_MaxTokensCapped ==
    request_payload # <<>> =>
        LET name == body.model[Len(body.model)]
            ceiling == IF name \in DOMAIN MODEL_MAX_TOKENS
                       THEN MODEL_MAX_TOKENS[name] ELSE 4096
            sent == request_payload.max_tokens
        IN  /\ sent <= ceiling
            /\ body.max_tokens = <<>> => sent = ceiling
            /\ body.max_tokens # <<>> =>
                   sent = IF body.max_tokens[1] <= ceiling
                          THEN body.max_tokens[1] ELSE ceiling

C12_Witness ==
    /\ Sent
    /\ body.model = <<"anthropic", "claude-9-experimental">>
    /\ body.max_tokens = <<8193>>
    /\ request_payload.max_tokens = 4096

\* inline images of a supported media type
InlineImages ==
    { item \in InputItems :
        /\ item.type = "image_url"
        /\ item.url.kind = "data"
        /\ item.url.media_type \in {"image/jpeg", "image/png", "image/gif", "image/webp"} }

\* 3/4 of the encoded length is above 5 MiB
Oversized(item) == item.url.length * 3 > 4 * 5 * 1024 * 1024

\* the request body holds nothing but text and inline images of a supported
\* media type
OnlyTextAndInlineImages ==
    /\ \A m \in Range(body.messages) : m.role # "system" => m.content.kind = "list"
    /\ \A item \in InputItems : item.type = "text" \/ item \in InlineImages

\* the construction of the payload is over
Built == api_key # "" /\ pc \notin {"entry", "build"}

\* C13: an inline image of a supported media type passes when 3/4 of its
\* encoded length is at most 5 MiB and fails with a size-limit error naming
\* the computed size when it is larger; no payload with an inline image
\* above the ceiling is sent.
C13_ImageSizeLimit ==
    /\ \A item \in SentItems :
           (item.type = "image" /\ item.source.type = "base64")
           => item.source.length * 3 <= 4 * 5 * 1024 * 1024
    /\ (Built /\ OnlyTextAndInlineImages) =>
           IF \E item \in InlineImages : Oversized(item)
           THEN /\ calls = 0
                /\ request_payload = <<>>
                /\ pc = "pipe_raised" =>
                       /\ exc.type = "ValueError"
                       /\ exc.message[1] = "Image size exceeds 5MB limit: "
                       /\ \E item \in InlineImages :
                              /\ Oversized(item)
                              /\ SubSeq(exc.message, 2, 5) = FormatMB(item.url.length)
                /\ pc = "done" => result.kind = "error"
                                  /\ ContainsToken(result.content,
                                                   "Image size exceeds 5MB limit: ")
           ELSE /\ pc # "pipe_raised"
                /\ \A item \in InlineImages :
                       \E out \in SentItems : /\ out.type = "image"
                                              /\ out.source.type = "base64"
                                              /\ out.source.length = item.url.length

C13_Witness ==
    /\ pc = "pipe_raised"
    /\ body.messages = << Message("user", ListContent(
                             << ImageItem(DataUrl("image/png", 6990506), None),
                                ImageItem(DataUrl("image/png", 6990507), None) >>)) >>
    /\ exc = Exception("ValueError",
                       <<"Image size exceeds 5MB limit: ", "5", ".", "0", "0", "MB">>)

\* image items given as a data:image URL whose media type is not allowed
UnsupportedImages ==
    { item \in InputItems :
        /\ item.type = "image_url"
        /\ item.url.kind = "data"
        /\ item.url.media_type \in {"image/bmp"} }

RequestModelSupportsPdf ==
    body.model[Len(body.model)]
        \in {"claude-3-5-sonnet-20241022", "claude-3-5-sonnet-20240620"}

\* C15 as stated: a pdf item is accepted if and only if the model the
\* request is addressed to is in the supported-PDF-model list; for any other
\* model the construction fails with an error naming the supported models
\* and no call is made.
C15_GatedByRequestModel ==
    (Built /\ \E item \in InputItems : item.type = "pdf_url") =>
        IF RequestModelSupportsPdf
        THEN ~(pc = "pipe_raised" /\ exc = PdfNotSupported)
        ELSE /\ calls = 0
             /\ pc \in {"pipe_raised", "done"}

\* C16 as stated: when content validation fails, no outbound call is made,
\* no status event precedes the error report and the validation message is
\* in the text returned.
C16_ValidationFailsFast ==
    (Built /\ ProcessMessagesRaises(remaining_messages(body.messages)) # NoException) =>
        /\ calls = 0
        /\ pc \in {"pipe_raised", "done"}
        /\ pc = "pipe_raised" => events = <<>>
        /\ pc = "done" =>
               /\ ContainsText(result.content,
                               ProcessMessagesRaises(remaining_messages(body.messages)).message)
               /\ Len(events) <= 1
               /\ \A i \in 1..Len(events) : events[i].done

\* C17: with an empty API key pipe returns "Error: ANTHROPIC_API_KEY is
\* required", emits exactly one status event with done = true when a
\* callback is supplied, processes no message and attempts no call, with
\* and without streaming.
C17_MissingApiKey ==
    api_key = "" =>
        /\ pc \in {"entry", "done"}
        /\ calls = 0
        /\ request_payload = <<>>
        /\ request_headers = <<>>
        /\ fragments = <<>>
        /\ pc = "entry" => events = <<>> /\ result = NoResult
        /\ pc = "done" =>
               /\ result.content = <<"Error: ANTHROPIC_API_KEY is required">>
               /\ result.kind = "error"
               /\ events = IF emitter
                           THEN << [type |-> "status",
                                    description |-> <<"Error: ANTHROPIC_API_KEY is required">>,
                                    done |-> TRUE] >>
                           ELSE <<>>
               /\ ~ENABLED Next

C17_Witness ==
    /\ api_key = ""
    /\ pc = "done"
    /\ emitter
    /\ stream = "True"
    /\ body # PlainBody
    /\ Len(events) = 1
    /\ result.content = <<"Error: ANTHROPIC_API_KEY is required">>

\* C18 as stated: the capability header is a function of the messages that
\* are sent: the PDF flag is there exactly when a sent item is a document,
\* the prompt-caching flag exactly when a sent item carries a cache-control
\* annotation, comma-joined when both apply, no header when neither applies.
C18_HeaderFromSentMessages ==
    request_payload # <<>> =>
        LET pdf == \E item \in SentItems : item.type = "document"
            cache == \E item \in SentItems : item.cache_control # None
        IN  IF pdf /\ cache
            THEN /\ "anthropic_beta" \in DOMAIN request_headers
                 /\ request_headers.anthropic_beta
                      = <<"pdfs-2024-09-25", ",", "prompt-caching-2024-07-31">>
            ELSE IF pdf
            THEN /\ "anthropic_beta" \in DOMAIN request_headers
                 /\ request_headers.anthropic_beta = <<"pdfs-2024-09-25">>
            ELSE IF cache
            THEN /\ "anthropic_beta" \in DOMAIN request_headers
                 /\ request_headers.anthropic_beta = <<"prompt-caching-2024-07-31">>
            ELSE "anthropic_beta" \notin DOMAIN request_headers

\* C19 as stated: every tool-call item of an assistant message and every
\* tool-result item of a user message is in the outbound messages with the
\* annotation {type: ephemeral}, and every document or image item that
\* carries a cache hint keeps it.
C19_CacheControlAttached ==
    request_payload # <<>> =>
        \A i \in 1..Len(request_payload.messages) :
            LET input == remaining_messages(body.messages)[i]
                output == request_payload.messages[i]
            IN  input.content.kind = "list" =>
                    \A item \in Range(input.content.items) :
                        /\ ( \/ input.role = "assistant" /\ item.type = "tool_calls"
                             \/ input.role = "user" /\ item.type = "tool_results" )
                           => \E out \in Range(output.content) :
                                  /\ out.type = item.type
                                  /\ out.cache_control = "ephemeral"
                        /\ (item.type \in {"image_url", "pdf_url"}
                            /\ item.cache_control # None)
                           => \E out \in Range(output.content) :
                                  /\ out.type \in {"image", "document"}
                                  /\ out.cache_control = item.cache_control

\* the text ends with the request identifier
Annotated(text, rid) ==
    /\ Len(text) >= 3
    /\ SubSeq(text, Len(text) - 2, Len(text)) = <<" (Request ID: ", rid, ")">>

\* C20: no error escapes pipe as an exception: an exception raised in pipe
\* is always taken by one of its handlers, a run ends with a text or error
\* result or with a stream whose last fragment carries the error text, with
\* or without a callback, and a transport error text ends with the captured
\* request identifier when there is one.
C20_NoErrorEscapes ==
    /\ exc # NoException => pc = "pipe_raised"
    /\ pc = "pipe_raised" => ENABLED (PipeRequestFailed \/ PipeFailed)
    /\ pc = "done" => result.kind \in {"text", "error"} /\ ~ENABLED Next
    /\ pc = "gen_done" => result.kind = "generator" /\ ~ENABLED Next
    /\ (pc = "done" /\ result.kind = "error") =>
           /\ result.content[1] \in {"Error: ", "Error: HTTP ", "Request failed: ",
                                     "Error: ANTHROPIC_API_KEY is required"}
           /\ (result.content[1] = "Request failed: " /\ request_id # None)
              => Annotated(result.content, request_id)
    /\ (pc = "gen_done" /\ Last(visited) = "Errored") =>
           /\ Len(fragments) >= 1
           /\ Last(fragments)[1] \in {"Stream error: ", "Error: HTTP "}
           /\ (response # EmptyResponse /\ response.headers.x_request_id # None)
              => Annotated(Last(fragments), response.headers.x_request_id)

C20_Witness ==
    /\ pc = "gen_done"
    /\ ~emitter
    /\ provider[1].kind = "http"
    /\ provider[1].status_code = 200
    /\ provider[1].lines = << UndecodableLine >>
    /\ provider[1].headers.x_request_id = "req_1"
    /\ Len(fragments) = 1
    /\ fragments[1][1] = "Stream error: "
    /\ Annotated(fragments[1], "req_1")

-----------------------------------------------------------------------------
(* Properties of one invocation as a whole *)

\* the identifier this invocation captured from a response of its own
CapturedId ==
    IF stream = "True" /\ response # EmptyResponse
    THEN response.headers.x_request_id ELSE None

\* the request identifiers a text names
NamedIds(text) ==
    { text[i + 1] : i \in { j \in 1..(Len(text) - 1) : text[j] = " (Request ID: " } }

\* C21 as stated: the request identifier appended to an error message of an
\* invocation is one captured from a response of that same invocation, never
\* one captured by another invocation on the same Pipe instance.
C21_OwnRequestId ==
    /\ pc = "done" => NamedIds(result.content) \subseteq {CapturedId} \ {None}
    /\ \A i \in 1..Len(fragments) :
           NamedIds(fragments[i]) \subseteq {CapturedId} \ {None}

\* the error detail of a body: error.message of a JSON body, the raw text of
\* any other body
ErrorDetail(text) == IF text = ErrorBody THEN <<"invalid_api_key">> ELSE text

\* C22 as stated: when the final response of a non-streaming request is not
\* a 200, the text handed to the caller holds the status code, the
\* x-request-id of the response when it has one, and the error detail of a
\* JSON body (the raw body otherwise).
C22_ProviderErrorMessage ==
    (stream = "False" /\ pc = "done" /\ calls > 0 /\ response.kind = "http"
       /\ response.status_code \in {400, 500}) =>
        /\ result.kind = "error"
        /\ ContainsToken(result.content, FormatStatus(response.status_code))
        /\ response.headers.x_request_id # None
           => Annotated(result.content, response.headers.x_request_id)
        /\ result.content
             = WithRequestId(<<"Error: HTTP ", FormatStatus(response.status_code), ": ">>
                             \o ErrorDetail(response.text),
                             response.headers.x_request_id)

\* the messages of the request body that have another role than system
NonSystem == SelectSeq(body.messages, LAMBDA m : m.role # "system")

\* the type an input item has in the outbound content
OutType(item) ==
    CASE item.type = "text"      -> "text"
      [] item.type = "image_url" -> "image"
      [] item.type = "pdf_url"   -> "document"
      [] OTHER                   -> None

\* the input items that process_content recognises, in input order
Recognised(items) ==
    SelectSeq(items, LAMBDA item : item.type \in {"text", "image_url", "pdf_url"})

\* out is the outbound content of the input content
SameOrder(content, out) ==
    IF content.kind = "str"
    THEN /\ Len(out) = 1
         /\ out[1].type = "text"
         /\ out[1].text = content.text
    ELSE /\ Len(out) = Len(Recognised(content.items))
         /\ \A k \in 1..Len(out) :
                LET item == Recognised(content.items)[k]
                IN  /\ out[k].type = OutType(item)
                    /\ out[k].text = item.text
                    /\ item.type # "text" =>
                           IF out[k].source.type = "url"
                           THEN out[k].source.url = item.url
                           ELSE /\ out[k].source.media_type = item.url.media_type
                                /\ out[k].source.length = item.url.length

\* C23: the outbound messages hold one message per non-system input message,
\* in input order, each with its content items in input order; no outbound
\* message has the system role and the system instruction is sent only in
\* the top-level system field.
C23_MessageSequence ==
    request_payload # <<>> =>
        /\ Len(request_payload.messages) = Len(NonSystem)
        /\ \A i \in 1..Len(request_payload.messages) :
               /\ request_payload.messages[i].role = NonSystem[i].role
               /\ request_payload.messages[i].role # "system"
               /\ SameOrder(NonSystem[i].content, request_payload.messages[i].content)
               /\ \A k \in 1..Len(request_payload.messages[i].content) :
                      request_payload.messages[i].content[k].text
                          \notin {"be brief", "be formal"}
        /\ "system" \in DOMAIN request_payload
             <=> \E i \in 1..Len(body.messages) : body.messages[i].role = "system"
        /\ "system" \in DOMAIN request_payload =>
               \E i \in 1..Len(body.messages) :
                   /\ body.messages[i].role = "system"
                   /\ \A j \in 1..(i - 1) : body.messages[j].role # "system"
                   /\ ContainsToken(request_payload.system, body.messages[i].content.text)

C23_Witness ==
    /\ Sent
    /\ body.messages = << Message("user", StrContent("hello")),
                          SystemMessage,
                          Message("assistant", StrContent("hi there")) >>
    /\ Len(request_payload.messages) = 2
    /\ request_payload.messages[1].role = "user"
    /\ request_payload.messages[2].role = "assistant"
    /\ request_payload.messages[2].content[1].text = "hi there"
    /\ ContainsToken(request_payload.system, "be brief")

\* the items of an unknown kind: a type that is not text, image_url or pdf_url
UnknownItems ==
    { item \in InputItems : item.type \notin {"text", "image_url", "pdf_url", Missing} }

\* C24: process_content maps a plain string to exactly one text item with
\* that string; for a list it keeps the recognised items in input order and
\* drops every item of an unknown kind, without an error and without any
\* effect on the other items.
C24_UnknownKindsDropped ==
    /\ request_payload # <<>> =>
           \A i \in 1..Len(request_payload.messages) :
               LET content == NonSystem[i].content
                   out == request_payload.messages[i].content
               IN  /\ content.kind = "str" =>
                          out = << [type |-> "text", text |-> content.text,
                                    source |-> NoSource, cache_control |-> None] >>
                   /\ content.kind = "list" =>
                          /\ SameOrder(content, out)
                          /\ \A k \in 1..Len(out) :
                                 out[k].type \in {"text", "image", "document"}
    /\ (Built /\ UnknownItems # {}
          /\ \A item \in InputItems \ UnknownItems : item.type = "text"
          /\ stream # None) =>
           /\ pc # "pipe_raised"
           /\ request_payload # <<>>

C24_Witness ==
    /\ Sent
    /\ body.messages = << Message("user", ListContent(
                             << OtherItem("audio"), TextItem("hi", None) >>)) >>
    /\ request_payload.messages[1].content
         = << [type |-> "text", text |-> "hi", source |-> NoSource,
               cache_control |-> None] >>

\* a non-streaming request whose payload was built
NonStreaming == stream = "False" /\ request_payload # <<>>

\* C26 as stated: a non-streaming invocation issues at least one and at most
\* three outbound calls, and _send_request always ends, by returning a
\* response or by propagating a transport error.
C26_BoundedCallsAndTermination ==
    NonStreaming =>
        /\ calls <= 3
        /\ pc = "send" => ENABLED Next
        /\ pc \in {"send_returned", "pipe_raised"} =>
               /\ calls >= 1
               /\ pc = "pipe_raised" => exc.type = "RequestException"

\* C27 as stated: when a callback is supplied and the processing-started
\* event was emitted, a status event with done = true is emitted before the
\* invocation ends, on every path.
C27_DoneEventBeforeEnd ==
    (emitter /\ pc \in {"done", "gen_done"}
       /\ \E i \in 1..Len(events) : events[i] = ProcessingEvent) =>
        \E i \in 1..Len(events) : events[i].done

\* C28 as stated: with an API key, valid content and no stream field, pipe
\* takes the non-streaming path: it issues the call and returns the reply
\* text or a provider error, as for stream = false.
C28_AbsentStreamFlag ==
    (stream = None /\ api_key # "" /\ BuildRaises(body) = NoException /\ pc = "done") =>
        /\ calls >= 1
        /\ result.kind = "text" \/ result.content[1] \in {"Error: HTTP ", "Request failed: "}

-----------------------------------------------------------------------------
(* Properties of process_content called on its own *)

-----------------------------------------------------------------------------
(* context_optimized.Filter.inlet: the search filter.  body.messages holds  *)
(* the conversation (string contents are token sequences), provider holds   *)
(* what the decision LLM, the query optimizer, the search API and the       *)
(* summarizer answer, request_payload the search request, response the      *)
(* search data, calls the number of requests sent to the search API.        *)

RESULTS_PREFIX == "\n\nWeb search results:\n"

SUMMARY_PREFIX == "\n\nWeb search summary:\n"

\* a message["content"] that is a str, as tokens; " " is white space
QueryContent(tokens) == [kind |-> "str", text |-> tokens, items |-> <<>>]

\* a message without a "content" key
NoContent == [kind |-> "missing", text |-> <<>>, items |-> <<>>]

\* a message["content"] that is a list of items
ItemsContent == [kind |-> "list", text |-> <<>>, items |-> <<>>]

SearchMessagePool ==
    { Message("user", QueryContent(<<"weather", " ", "today">>)),
      Message("user", QueryContent(<<" ">>)),
      Message("assistant", QueryContent(<<"hi">>)),
      Message("user", NoContent),
      Message("user", ItemsContent) }

\* the body: without "messages", or with a list of up to MaxMessages messages
SearchBodies ==
    { [has_messages |-> FALSE, messages |-> <<>>] }
    \cup { [has_messages |-> TRUE, messages |-> q] :
              q \in SeqsUpTo(SearchMessagePool, MaxMessages) }

\* what client.chat.completions.create answers to the decision request: it
\* raises, or its content is not JSON, or it is a JSON object
DecisionAnswer(kind, needed, search_type) ==
    [kind |-> kind, needed |-> needed, search_type |-> search_type]

DecisionAnswers ==
    { DecisionAnswer("raises", Missing, Missing),
      DecisionAnswer("garbage", Missing, Missing),
      DecisionAnswer("json", "true", "news search"),
      DecisionAnswer("json", "true", "summary"),
      DecisionAnswer("json", "true", "images"),
      DecisionAnswer("json", "false", None),
      DecisionAnswer("json", Missing, "summary") }

\* what the optimizer request answers: it raises, or a text
OptimizerAnswer(kind, text) == [kind |-> kind, text |-> text]

OptimizerAnswers ==
    { OptimizerAnswer("raises", <<>>),
      OptimizerAnswer("text", <<"weather", " ", "today">>),
      OptimizerAnswer("text", <<" ", "weather", " ", "forecast", " ">>) }

SearchResult == [title |-> "Forecast", description |-> "Sunny", url |-> "https://w.example"]

\* what requests.get answers to a search: it raises, or a JSON object with
\* an "error" key, or the data: its results and its summarizer key (None
\* when there is none)
BraveAnswer(kind, results, summarizer) ==
    [kind |-> kind, results |-> results, summarizer |-> summarizer]

BraveAnswers ==
    { BraveAnswer("raises", <<>>, None),
      BraveAnswer("error", <<>>, None),
      BraveAnswer("data", <<>>, None),
      BraveAnswer("data", << SearchResult >>, None),
      BraveAnswer("data", << SearchResult >>, "key1") }

\* what the summarizer answers: it raises, or data with or without content
SummaryAnswer(kind, content, citations) ==
    [kind |-> kind, content |-> content, citations |-> citations]

SummaryAnswers ==
    { SummaryAnswer("raises", <<>>, <<>>),
      SummaryAnswer("data", <<>>, <<>>),
      SummaryAnswer("data", <<"Sunny all day">>, << "https://w.example" >>) }

\* the answers that cannot be asked for are fixed: no LLM answer without
\* OPENAI_API_KEY, no search answer without BRAVE_API_KEY, a summary only
\* for data with a summarizer key
SearchEnvironments ==
    { e \in [openai_key : {"", "sk-openai"}, decision : DecisionAnswers,
             optimizer : OptimizerAnswers, brave_key : {"", "brave-key"},
             brave : BraveAnswers, summary : SummaryAnswers] :
        /\ e.openai_key = "" => e.decision.kind = "raises" /\ e.optimizer.kind = "raises"
        /\ e.brave_key = "" => e.brave.kind = "raises"
        /\ e.brave.summarizer = None => e.summary.kind = "raises" }

SearchFilterInit ==
    /\ PipeIdle
    /\ normalized = <<>>
    /\ body \in SearchBodies
    /\ provider \in SearchEnvironments
    /\ emitter \in BOOLEAN
    /\ pc = "inlet"
    /\ calls = 0
    /\ exc = NoException
    /\ events = <<>>

\* str.strip(): white space removed at both ends
RECURSIVE LStrip(_)
LStrip(text) ==
    IF text # <<>> /\ Head(text) = " " THEN LStrip(Tail(text)) ELSE text

RECURSIVE RStrip(_)
RStrip(text) ==
    IF text # <<>> /\ text[Len(text)] = " "
    THEN RStrip(SubSeq(text, 1, Len(text) - 1))
    ELSE text

Strip(text) == RStrip(LStrip(text))

\* `if "messages" in body and body["messages"]:`
HasMessages == body.has_messages /\ body.messages # <<>>

\* latest_message = body["messages"][-1]
latest_message == body.messages[Len(body.messages)]

\* faulty variant: the role of the latest message is not looked at
IsUserMessage_AnyRole(message) == message.content.kind # "missing"

\* `latest_message.get("role") == "user" and "content" in latest_message`
IsUserMessage(message) == message.role = "user" /\ message.content.kind # "missing"

\* original_query = latest_message["content"]
original_query == latest_message.content.text

\* the latest message is a user message whose content is a str
HasUserText ==
    HasMessages /\ IsUserMessage(latest_message) /\ latest_message.content.kind = "str"

\* `if original_query.strip():`
HasQuery == HasUserText /\ Strip(original_query) # <<>>

DefaultDecision == [needed |-> TRUE, search_type |-> "summary"]

\* bool(result.get("needed", False))
JsonNeeded(value) == value \notin {Missing, "false"}

\* _llm_decide_web_search_and_type: the default without a key, when the
\* request raises and when the answer is not JSON
_llm_decide_web_search_and_type ==
    IF provider.openai_key = "" THEN DefaultDecision
    ELSE IF provider.decision.kind # "json" THEN DefaultDecision
    ELSE [needed |-> JsonNeeded(provider.decision.needed),
          search_type |-> IF provider.decision.search_type \in {"news search", "summary", None}
                          THEN provider.decision.search_type
                          ELSE None]

decision == _llm_decide_web_search_and_type

\* _generate_optimized_query: the stripped answer, or the query when the
\* request raises
_generate_optimized_query(current_query) ==
    IF provider.openai_key = "" THEN current_query
    ELSE IF provider.optimizer.kind = "raises" THEN current_query
    ELSE Strip(provider.optimizer.text)

\* search_query of inlet
search_query ==
    IF provider.openai_key # "" THEN _generate_optimized_query(original_query)
    ELSE original_query

BraveError(message) == [error |-> message, results |-> <<>>, summarizer |-> None]

BraveData(results, summarizer) ==
    [error |-> None, results |-> results, summarizer |-> summarizer]

\* _get_brave_search: no request without BRAVE_API_KEY; every exception
\* becomes an error value
_get_brave_search ==
    IF provider.brave_key = "" THEN BraveError(<<"No API key provided">>)
    ELSE IF provider.brave.kind = "raises"
         THEN BraveError(<<"Error performing Brave search: ", "ConnectionError">>)
    ELSE IF provider.brave.kind = "error" THEN BraveError(<<"rate limited">>)
    ELSE BraveData(provider.brave.results, provider.brave.summarizer)

\* the lines of one result in _format_news_results and _format_web_results
FormatResult(i, r) ==
    << Digits[i + 1], ". ", r.title, "\n", r.description, "\n", "Source: ", r.url, "\n\n" >>

RECURSIVE FormatResults(_, _)
FormatResults(results, i) ==
    IF i > Len(results) THEN <<>>
    ELSE FormatResult(i, results[i]) \o FormatResults(results, i + 1)

_format_news_results(news_data) ==
    IF news_data.results = <<>>
    THEN << RESULTS_PREFIX, "No news results available." >>
    ELSE << RESULTS_PREFIX >> \o FormatResults(news_data.results, 1)

_format_web_results(web_data) ==
    IF web_data.results = <<>>
    THEN << RESULTS_PREFIX, "No web results available." >>
    ELSE << RESULTS_PREFIX >> \o FormatResults(web_data.results, 1)

RECURSIVE FormatCitations(_, _)
FormatCitations(citations, i) ==
    IF i > Len(citations) THEN <<>>
    ELSE << Digits[i + 1], ". ", citations[i], "\n" >> \o FormatCitations(citations, i + 1)

\* _format_summary_content of what _get_summary returned: the web results
\* when the summary request failed or has no content
_format_summary_content(web_data) ==
    IF provider.summary.kind = "raises" \/ provider.summary.content = <<>>
    THEN _format_web_results(web_data)
    ELSE << SUMMARY_PREFIX >> \o provider.summary.content
         \o (IF provider.summary.citations # <<>>
             THEN << "\n\nSources:\n" >> \o FormatCitations(provider.summary.citations, 1)
             ELSE <<>>)

\* formatted_results of inlet, for the search data held in response
formatted_results ==
    (IF request_payload.search_query # original_query
     THEN << "\n\nOptimized search query: \"" >> \o request_payload.search_query \o << "\"\n" >>
     ELSE <<>>)
    \o (IF response.error # None
        THEN << RESULTS_PREFIX, "Failed to perform search: " >> \o response.error
        ELSE IF request_payload.search_type = "news search"
             THEN _format_news_results(response)
        ELSE IF response.summarizer # None THEN _format_summary_content(response)
        ELSE _format_web_results(response))

\* the status event that ends the search
SearchDoneEvent ==
    IF response.error # None
    THEN << StatusEvent(<<"Brave search failed: ">> \o response.error, TRUE) >>
    ELSE IF request_payload.search_type = "news search"
         THEN << StatusEvent(<<"Brave news search complete.">>, TRUE) >>
    ELSE IF response.summarizer # None
         THEN << StatusEvent(<<"Retrieving summary from Brave...">>, FALSE),
                 StatusEvent(<<"Brave search summary complete.">>, TRUE) >>
    ELSE << StatusEvent(<<"Brave search complete (no summary).">>, TRUE) >>

SearchNeededEvent(needed, search_type) ==
    [type |-> "search_needed", needed |-> needed, search_type |-> search_type]

\* both callbacks are supplied and enabled, or none is
EmitAll(new_events) == IF emitter THEN events \o new_events ELSE events

BodyResult == [kind |-> "body", content |-> <<>>]

\* no messages, or the latest message is not a user message with content,
\* or its content is blank: `return body`
SearchInletNoQuery ==
    /\ pc = "inlet"
    /\ IF ~HasMessages THEN TRUE
       ELSE IF ~IsUserMessage(latest_message) THEN TRUE
       ELSE latest_message.content.kind = "str" /\ Strip(original_query) = <<>>
    /\ result' = BodyResult
    /\ pc' = "returned"
    /\ UNCHANGED <<normalized, api_key, body, request_payload, request_headers, stream, emitter,
                   provider, retry_count, calls, waits, response, exc, fragments,
                   pos, request_id, events, visited>>

\* the content of the latest user message is a list: `original_query.strip()`
\* raises AttributeError, which inlet does not catch
SearchInletContentRaises ==
    /\ pc = "inlet"
    /\ HasMessages /\ IsUserMessage(latest_message)
    /\ latest_message.content.kind = "list"
    /\ exc' = Exception("AttributeError", <<"'list' object has no attribute 'strip'">>)
    /\ pc' = "raised"
    /\ UNCHANGED <<normalized, api_key, body, request_payload, request_headers, stream, emitter,
                   provider, retry_count, calls, waits, response, result, fragments,
                   pos, request_id, events, visited>>

\* `if not needs_web_search:` ... `return body`
SearchNotNeeded ==
    /\ pc = "inlet"
    /\ HasQuery
    /\ ~decision.needed
    /\ events' = EmitAll(<< SearchNeededEvent(FALSE, decision.search_type),
                            StatusEvent(<<"Web search not needed for this query.">>, TRUE) >>)
    /\ result' = BodyResult
    /\ pc' = "returned"
    /\ UNCHANGED <<normalized, api_key, body, request_payload, request_headers, stream, emitter,
                   provider, retry_count, calls, waits, response, exc, fragments,
                   pos, request_id, visited>>

\* the decision says needed: the search query is chosen
SearchBegin ==
    /\ pc = "inlet"
    /\ HasQuery
    /\ decision.needed
    /\ request_payload' = [search_query |-> search_query, search_type |-> decision.search_type]
    /\ events' = EmitAll(<< SearchNeededEvent(TRUE, decision.search_type),
                            StatusEvent(<<"Searching with Brave">>, FALSE) >>)
    /\ pc' = "search"
    /\ UNCHANGED <<normalized, api_key, body, request_headers, stream, emitter,
                   provider, retry_count, calls, waits, response, exc, result, fragments,
                   pos, request_id, visited>>

\* brave_data = self._get_brave_search(search_query, search_type)
SearchBrave ==
    /\ pc = "search"
    /\ response' = _get_brave_search
    /\ calls' = IF provider.brave_key = "" THEN calls ELSE calls + 1
    /\ pc' = "format"
    /\ UNCHANGED <<normalized, api_key, body, request_payload, request_headers, stream, emitter,
                   provider, retry_count, waits, exc, result, fragments,
                   pos, request_id, events, visited>>

\* the results are formatted (the summary is fetched when the data has a
\* summarizer key) and `latest_message["content"] += formatted_results`
SearchAppend ==
    /\ pc = "format"
    /\ calls' = IF response.error = None /\ request_payload.search_type # "news search"
                   /\ response.summarizer # None
                THEN calls + 1 ELSE calls
    /\ events' = EmitAll(SearchDoneEvent)
    /\ body' = [body EXCEPT !.messages[Len(body.messages)].content.text =
                                @ \o formatted_results]
    /\ result' = BodyResult
    /\ pc' = "returned"
    /\ UNCHANGED <<normalized, api_key, request_payload, request_headers, stream, emitter,
                   provider, retry_count, waits, response, exc, fragments,
                   pos, request_id, visited>>

SearchFilterNext ==
    \/ SearchInletNoQuery
    \/ SearchInletContentRaises
    \/ SearchNotNeeded
    \/ SearchBegin
    \/ SearchBrave
    \/ SearchAppend

SearchFilterSpec == SearchFilterInit /\ [][SearchFilterNext]_vars

-----------------------------------------------------------------------------
(* Properties of the search filter *)

IsPrefix(p, q) == Len(p) <= Len(q) /\ SubSeq(q, 1, Len(p)) = p

\* the one change inlet makes: text appended to the latest message
AppendedToLatest ==
    /\ body'.has_messages = body.has_messages
    /\ Len(body'.messages) = Len(body.messages)
    /\ \A i \in 1..(Len(body.messages) - 1) : body'.messages[i] = body.messages[i]
    /\ body'.messages[Len(body.messages)].role = latest_message.role
    /\ body'.messages[Len(body.messages)].content.kind = latest_message.content.kind
    /\ IsPrefix(latest_message.content.text, body'.messages[Len(body.messages)].content.text)

\* the case in which inlet searches
SearchCase ==
    /\ HasMessages
    /\ latest_message.role = "user"
    /\ latest_message.content.kind = "str"
    /\ Strip(latest_message.content.text) # <<>>
    /\ decision.needed

-----------------------------------------------------------------------------
(* prompt_enhancer_filter_with_knowledge.Filter.inlet: the prompt enhancer. *)
(* body.messages holds the conversation (contents are token sequences),     *)
(* provider holds the valves, the knowledge of the model and what           *)
(* generate_chat_completion answers, emitter is valves.show_status, calls   *)
(* the number of enhancement calls.                                         *)

EnhancerMessagePool ==
    { Message("user", QueryContent(<<"q">>)),
      Message("assistant", QueryContent(<<"a">>)),
      Message("system", QueryContent(<<"s">>)) }

\* knowledge_items, as extract_model_knowledge returns them
KnowledgeItem(name, description) == [name |-> name, description |-> description]

KnowledgeLists == { <<>>, << KnowledgeItem("Docs", "Knowledge base content") >> }

\* what generate_chat_completion does: it returns a completion ("ok"), or
\* a response without choices ("malformed"), or it raises
CompletionAnswer(kind, text) == [kind |-> kind, text |-> text]

enhanced_prompt == <<"Enhanced: ", "q">>

CompletionAnswers ==
    { CompletionAnswer("ok", enhanced_prompt),
      CompletionAnswer("malformed", <<>>),
      CompletionAnswer("ValueError", <<"bad model">>),
      CompletionAnswer("Exception", <<"timeout">>) }

EnhancerEnvironments ==
    [answer : CompletionAnswers,
     knowledge_items : KnowledgeLists,
     append_knowledge_to_messages : BOOLEAN,
     show_enhanced_prompt : BOOLEAN]

EnhancerInit ==
    /\ PipeIdle
    /\ normalized = <<>>
    /\ body \in { [has_messages |-> TRUE, messages |-> q] :
                    q \in SeqsUpTo(EnhancerMessagePool, MaxMessages) \ {<<>>} }
    /\ provider \in EnhancerEnvironments
    /\ emitter \in BOOLEAN
    /\ pc = "inlet"
    /\ calls = 0
    /\ exc = NoException
    /\ events = <<>>

\* format_knowledge_list: "\n".join of the heading and two lines per item
RECURSIVE KnowledgeLines(_)
KnowledgeLines(items) ==
    IF items = <<>> THEN <<>>
    ELSE << "\n", "**", Head(items).name, ":**", "\n", "   - ", Head(items).description >>
         \o KnowledgeLines(Tail(items))

format_knowledge_list(knowledge_items) ==
    IF knowledge_items = <<>> THEN <<>>
    ELSE << "\n### Knowledgebases" >> \o KnowledgeLines(knowledge_items)

UserIndexes(messages) == { i \in 1..Len(messages) : messages[i].role = "user" }

\* is_first_user_message: exactly one message has the role user
is_first_user_message(messages) == Cardinality(UserIndexes(messages)) = 1

\* `for i in range(len(messages) - 1, -1, -1): if messages[i].get("role") == "user":`
LastUserIndex(messages) ==
    CHOOSE i \in UserIndexes(messages) : \A j \in UserIndexes(messages) : j <= i

\* the messages after the knowledge block of inlet
WithKnowledge(messages) ==
    IF provider.append_knowledge_to_messages /\ provider.knowledge_items # <<>>
       /\ is_first_user_message(messages)
    THEN [messages EXCEPT ![LastUserIndex(messages)].content.text =
                              @ \o format_knowledge_list(provider.knowledge_items)]
    ELSE messages

\* `messages[-1]["content"] = enhanced_prompt`
Enhanced(messages, prompt) ==
    [messages EXCEPT ![Len(messages)].content.text = prompt]

\* inlet up to the enhancement call: the knowledge is appended to the one
\* user message when the valve asks for it, the status event is emitted
EnhancerPrepare ==
    /\ pc = "inlet"
    /\ body' = [body EXCEPT !.messages = WithKnowledge(body.messages)]
    /\ events' = EmitAll(<< StatusEvent(<<"Enhancing the prompt...">>, FALSE) >>)
    /\ pc' = "call"
    /\ UNCHANGED <<normalized, api_key, request_payload, request_headers, stream, emitter,
                   provider, retry_count, calls, waits, response, exc, result, fragments,
                   pos, request_id, visited>>

EnhancedPromptMessage ==
    [type |-> "message",
     description |-> <<"<details>\n<summary>Enhanced Prompt</summary>\n">>
                     \o provider.answer.text \o <<"\n\n---\n\n</details>">>,
     done |-> TRUE]

\* generate_chat_completion returns a completion: the last message gets
\* the enhanced prompt
EnhancerSuccess ==
    /\ pc = "call"
    /\ provider.answer.kind = "ok"
    /\ calls' = calls + 1
    /\ body' = [body EXCEPT !.messages = Enhanced(body.messages, provider.answer.text)]
    /\ events' = (IF emitter
                  THEN events \o << StatusEvent(<<"Prompt successfully enhanced.">>, TRUE) >>
                  ELSE events)
                 \o (IF provider.show_enhanced_prompt THEN << EnhancedPromptMessage >>
                     ELSE <<>>)
    /\ result' = BodyResult
    /\ pc' = "returned"
    /\ UNCHANGED <<normalized, api_key, request_payload, request_headers, stream, emitter,
                   provider, retry_count, waits, response, exc, fragments,
                   pos, request_id, visited>>

\* `except ValueError as ve:`
EnhancerValueError ==
    /\ pc = "call"
    /\ provider.answer.kind = "ValueError"
    /\ calls' = calls + 1
    /\ events' = EmitAll(<< StatusEvent(<<"Error: ">> \o provider.answer.text, TRUE) >>)
    /\ result' = BodyResult
    /\ pc' = "returned"
    /\ UNCHANGED <<normalized, api_key, body, request_payload, request_headers, stream, emitter,
                   provider, retry_count, waits, response, exc, fragments,
                   pos, request_id, visited>>

\* `except Exception as e:`: the call raised, or the response has no
\* choices and the subscript raised
EnhancerFailed ==
    /\ pc = "call"
    /\ provider.answer.kind \in {"Exception", "malformed"}
    /\ calls' = calls + 1
    /\ events' = EmitAll(<< StatusEvent(<<"An unexpected error occurred.">>, TRUE) >>)
    /\ result' = BodyResult
    /\ pc' = "returned"
    /\ UNCHANGED <<normalized, api_key, body, request_payload, request_headers, stream, emitter,
                   provider, retry_count, waits, response, exc, fragments,
                   pos, request_id, visited>>

EnhancerNext ==
    \/ EnhancerPrepare
    \/ EnhancerSuccess
    \/ EnhancerValueError
    \/ EnhancerFailed

EnhancerSpec == EnhancerInit /\ [][EnhancerNext]_vars

-----------------------------------------------------------------------------
(* Properties of the prompt enhancer *)

\* the enhancement call of this step succeeded
EnhancementSucceeds == pc = "call" /\ pc' = "returned" /\ provider.answer.kind = "ok"

\* the enhancement call of this step failed
EnhancementFails == pc = "call" /\ pc' = "returned" /\ provider.answer.kind # "ok"

\* C30 as stated: after a successful enhancement call the content of the
\* user's latest message is the enhanced prompt and every other message is
\* as it was; after a failed call inlet has returned the body, without
\* raising, with the messages it had before the call.
C30_LatestUserMessageEnhanced ==
    [][/\ EnhancementSucceeds /\ UserIndexes(body.messages) # {} =>
            /\ Len(body'.messages) = Len(body.messages)
            /\ body'.messages[LastUserIndex(body.messages)].content.text = provider.answer.text
            /\ \A i \in 1..Len(body.messages) :
                  i # LastUserIndex(body.messages) => body'.messages[i] = body.messages[i]
       /\ EnhancementFails =>
            body' = body /\ result' = BodyResult /\ exc' = NoException]_vars

====
